---- MODULE Spec2Model ----
(***************************************************************************)
(* Hub HQ synchronisation scripts (sunrisedatadept/hub_member_hq).         *)
(*                                                                         *)
(* The model covers the reconciliation of a hub's "Hub HQ" worksheet with  *)
(* the Mobilize event-attendance query (scripts/mobilize_sync.py) and with *)
(* the Interest Form / Data Entry sheets (scripts/sheets_sync.py), the     *)
(* membership-status derivation assign_status, the upsert of new contacts  *)
(* into EveryAction (scripts/everyaction_sync.py), the arrival of national *)
(* contacts (scripts/new_national_contacts_sync.py) and the set up of a    *)
(* hub (scripts/setup_script.py).                                          *)
(*                                                                         *)
(* Representation.                                                         *)
(*   - time is counted in whole days; a timestamp cell holds <<t>> (the    *)
(*     text of day t) or <<>> (an empty cell); strptime reads t back;      *)
(*   - a numeric cell holds <<n>> (the text of n) or <<>>;                 *)
(*   - a text cell is the sequence of its characters, <<>> being '';       *)
(*     the status and source cells hold their text as a whole;             *)
(*   - a Python dict is the sequence of its items in insertion order;      *)
(*   - Python's None is <<>> where a number is expected (Some(n) = <<n>>). *)
(***************************************************************************)
EXTENDS Integers, Sequences, FiniteSets, TLC

VARIABLES
    now,                    \* datetime.now(): the day a script runs
    call,                   \* arguments of the function under study
    ret,                    \* its result, "pending" before the call
    pc,                     \* how far the scripts have got for the hub
    hq_worksheet,           \* the values of the hub's 'Hub HQ' worksheet, row 1 first
    hq_errors,              \* the error rows collected for sunrise.hub_hq_errors
    run,                    \* the last merge pass: what it read, computed and wrote
    control_table,          \* sunrise.hq_ea_sync_control_table: the hub's date_of_ea_sync_success rows
    everyaction,            \* the upserts the hub's EveryAction committee has accepted
    upsert_errors,          \* sunrise.hq_ea_sync_errors: the upserts that raised
    setup_spreadsheet       \* the 'set up', 'scheduled' and 'errors' tabs of the Set Up Sheet

\* what everyaction_sync.py and setup_script.py keep outside the Hub HQ
ea_vars == <<control_table, everyaction, upsert_errors>>
setup_vars == <<setup_spreadsheet>>

vars == <<now, call, ret, pc, hq_worksheet, hq_errors, run, ea_vars, setup_vars>>

----------------------------------------------------------------------------
(* Bounds of the model *)

MaxAge == 62                 \* ages 0..MaxAge days are explored
MaxSignups == 3              \* total_signups 0..MaxSignups
MaxDays == 3                 \* days_since_last_signup -1..MaxDays
MaxEventThreshold == 2       \* HQ Settings F4
MaxInactivity == 3           \* HQ Settings E4
Today == 61                  \* the day the merge runs; contacts joined on day 0 or Today
MaxHqRows == 2               \* contact rows of the Hub HQ before a run
MaxIncoming == 2             \* rows of the Mobilize query, of a form sheet

----------------------------------------------------------------------------
(* Python values *)

None == <<>>
Some(v) == <<v>>

\* a dict as the sequence of its items [key, val], keys distinct
Keys(dict) == {dict[i].key : i \in 1..Len(dict)}
Has(dict, k) == \E i \in 1..Len(dict) : dict[i].key = k
Get(dict, k) == dict[CHOOSE i \in 1..Len(dict) : dict[i].key = k].val
\* del that leaves the item in the dict
Del_Keep(dict, k) == dict
Del(dict, k) == SelectSeq(dict, LAMBDA item : item.key # k)
\* dict[k] = v: a new key goes last, a known key keeps its place
\* an assignment that leaves the value of a known key as it is
Put_KeepFirst(dict, k, v) == IF Has(dict, k) THEN dict ELSE Append(dict, [key |-> k, val |-> v])
Put(dict, k, v) ==
    IF Has(dict, k)
    THEN [i \in 1..Len(dict) |-> IF dict[i].key = k THEN [key |-> k, val |-> v] ELSE dict[i]]
    ELSE Append(dict, [key |-> k, val |-> v])
Values(dict) == [i \in 1..Len(dict) |-> dict[i].val]

\* a str is the sequence of its characters; str(n) of a number is <<n>>
Str(n) == <<n>>

----------------------------------------------------------------------------
(* mobilize_sync.py: assign_status *)

sevendays == 7
sixtydays == 60

HOT_LEAD == "HOT LEAD"
PROSPECTIVE == "Prospective/New Member"
ACTIVE == "Active Member"
INACTIVE == "Inactive Member"
NEVER == "Never got involved"
ERROR_STATE == "error (plz contact hub-hq-help@sunrisemovement.org)"
TypeError == "TypeError"

Statuses == {HOT_LEAD, PROSPECTIVE, ACTIVE, INACTIVE, NEVER}

\* strptime(hq_datejoined[:19] + ' +00:00', ...) of a timestamp cell
strptime(cell) == cell[1]

\* BranchCond with `>` for `>=` in the Inactive branch
BranchCond_StrictInactive(k, time_since_joined, total_signups, days_since_last_signup, event_threshold, inactivity_threshold) ==
    CASE k = 1 -> time_since_joined <= sevendays
      [] k = 2 -> sevendays < time_since_joined /\ time_since_joined <= sixtydays
      [] k = 3 -> /\ total_signups > event_threshold
                  /\ days_since_last_signup # None
                  /\ days_since_last_signup[1] < inactivity_threshold
      [] k = 4 -> /\ total_signups > event_threshold
                  /\ days_since_last_signup # None
                  /\ days_since_last_signup[1] > inactivity_threshold
      [] k = 5 -> total_signups <= event_threshold /\ time_since_joined > sixtydays

\* BranchCond with `<` for `<=` at the sixty-day boundary
BranchCond_StrictSixty(k, time_since_joined, total_signups, days_since_last_signup, event_threshold, inactivity_threshold) ==
    CASE k = 1 -> time_since_joined <= sevendays
      [] k = 2 -> sevendays < time_since_joined /\ time_since_joined < sixtydays
      [] k = 3 -> /\ total_signups > event_threshold
                  /\ days_since_last_signup # None
                  /\ days_since_last_signup[1] < inactivity_threshold
      [] k = 4 -> /\ total_signups > event_threshold
                  /\ days_since_last_signup # None
                  /\ days_since_last_signup[1] >= inactivity_threshold
      [] k = 5 -> total_signups <= event_threshold /\ time_since_joined > sixtydays

\* The condition of the k-th branch of the if/elif chain, k = 1..5.
BranchCond(k, time_since_joined, total_signups, days_since_last_signup, event_threshold, inactivity_threshold) ==
    CASE k = 1 -> time_since_joined <= sevendays
      [] k = 2 -> sevendays < time_since_joined /\ time_since_joined <= sixtydays
      [] k = 3 -> /\ total_signups > event_threshold
                  /\ days_since_last_signup # None
                  /\ days_since_last_signup[1] < inactivity_threshold
      [] k = 4 -> /\ total_signups > event_threshold
                  /\ days_since_last_signup # None
                  /\ days_since_last_signup[1] >= inactivity_threshold
      [] k = 5 -> total_signups <= event_threshold /\ time_since_joined > sixtydays

\* Evaluating the k-th condition raises: `None < int` once the left operand
\* of `and` is true.
BranchRaises(k, total_signups, days_since_last_signup, event_threshold) ==
    /\ k \in {3, 4}
    /\ total_signups > event_threshold
    /\ days_since_last_signup = None

BranchStatus(k) ==
    CASE k = 1 -> HOT_LEAD
      [] k = 2 -> PROSPECTIVE
      [] k = 3 -> ACTIVE
      [] k = 4 -> INACTIVE
      [] k = 5 -> NEVER

\* if / elif / ... / else over the branches in the given order
RECURSIVE FirstMatch(_, _, _, _, _, _)
FirstMatch(order, time_since_joined, total_signups, days_since_last_signup, event_threshold, inactivity_threshold) ==
    IF order = <<>> THEN ERROR_STATE
    ELSE IF BranchRaises(Head(order), total_signups, days_since_last_signup,
                         event_threshold)
         THEN TypeError
    ELSE IF BranchCond(Head(order), time_since_joined, total_signups,
                       days_since_last_signup, event_threshold,
                       inactivity_threshold)
         THEN BranchStatus(Head(order))
    ELSE FirstMatch(Tail(order), time_since_joined, total_signups,
                    days_since_last_signup, event_threshold,
                    inactivity_threshold)

\* the attendance branches tested before the age branches
BranchOrder_AttendanceFirst == <<3, 4, 1, 2, 5>>

\* the order in which the source tests the branches
BranchOrder == <<1, 2, 3, 4, 5>>

\* total_signups, days_since_last_signup of the try/except KeyError
LookupSignups(hq_email, mobilize_dict) ==
    IF Has(mobilize_dict, hq_email)
    THEN Get(mobilize_dict, hq_email).total_signups
    ELSE 0

LookupDays(hq_email, mobilize_dict) ==
    IF Has(mobilize_dict, hq_email)
    THEN Some(Get(mobilize_dict, hq_email).days_since_last_signup)
    ELSE None

assign_status(hq_row, mobilize_dict, event_threshold, inactivity_threshold, today) ==
    FirstMatch(BranchOrder,
               today - strptime(hq_row.date_joined),
               LookupSignups(hq_row.email, mobilize_dict),
               LookupDays(hq_row.email, mobilize_dict),
               event_threshold, inactivity_threshold)

----------------------------------------------------------------------------
(* Records *)

\* a row of the query of get_mobilize_data
MobilizeRow(email, tag, date_joined, total_signups, days_since_last_signup) ==
    [first_name |-> tag, last_name |-> tag, email |-> email, phone |-> tag,
     date_joined |-> <<date_joined>>,
     total_signups |-> total_signups, total_attendances |-> total_signups,
     first_signup |-> date_joined, first_attendance |-> date_joined,
     days_since_last_signup |-> days_since_last_signup,
     days_since_last_attendance |-> days_since_last_signup]

\* a row of the Hub HQ worksheet, columns A..R
HqRow(email, tag, status, date_joined, source, date_claimed) ==
    [first_name |-> tag, last_name |-> tag, email |-> email, phone |-> tag,
     status |-> status, date_joined |-> date_joined,
     total_signups |-> <<>>, total_attendances |-> <<>>,
     first_signup |-> <<>>, first_attendance |-> <<>>,
     days_since_last_signup |-> <<>>, days_since_last_attendance |-> <<>>,
     interest_form_responses |-> <<>>, data_entry_data |-> <<>>,
     zipcode |-> tag, birthyear |-> tag,
     source |-> source, date_claimed |-> date_claimed]

----------------------------------------------------------------------------
(* The Hub HQ worksheet *)

\* hq_columns_list, followed by the date_claimed column (hq_columns, index 17)
hq_columns_list == <<"first_name", "last_name", "email", "phone", "status", "date_joined", "total_signups", "total_attendances", "first_signup", "first_attendance", "days_since_last_signup", "days_since_last_attendance", "interest_form_responses", "data_entry_data", "zipcode", "birthyear", "source">>

hq_column_names == hq_columns_list \o <<"date_claimed">>

\* hq_columns[name]: the 0-based index of a column
hq_columns_dict == [name \in {hq_column_names[i] : i \in 1..Len(hq_column_names)} |-> (CHOOSE i \in 1..Len(hq_column_names) : hq_column_names[i] = name) - 1]
hq_columns(name) == hq_columns_dict[name]

\* hq_row[a:b] of a row held as a record: the cells of columns a .. b-1
Slice(hq_row, a, b) == [j \in 1..(b - a) |-> hq_row[hq_column_names[a + j]]]

\* worksheet.update(range, values) for a range that starts at 0-based column
\* first_col of sheet row first_row: values[k][j] lands k-1 rows down and
\* j-1 columns right of the start; rows below the sheet's last are not touched
\* by the writes of these scripts (values never holds more rows than read).
update(worksheet, first_col, first_row, values) ==
    [r \in 1..Len(worksheet) |->
        IF r >= first_row /\ r - first_row + 1 <= Len(values)
        THEN [c \in DOMAIN worksheet[r] |->
                IF /\ hq_columns(c) >= first_col
                   /\ hq_columns(c) - first_col + 1 <= Len(values[r - first_row + 1])
                THEN values[r - first_row + 1][hq_columns(c) - first_col + 1]
                ELSE worksheet[r][c]]
        ELSE worksheet[r]]

\* worksheet.update_acell(letter + str(row), value)
update_acell(worksheet, column, row, value) ==
    IF row \in 1..Len(worksheet)
    THEN [worksheet EXCEPT ![row] = [@ EXCEPT ![column] = value]]
    ELSE worksheet

\* strftime(now, '%m/%d/%Y %H:%M:%S')
strftime(t) == <<t>>

NATIONAL == "National Email List"

\* the three rows above the contacts: column headers and instructions
HeaderRow == [c \in {hq_column_names[i] : i \in 1..Len(hq_column_names)} |-> IF c \in {"status", "source"} THEN "#" ELSE <<"#">>]

NoRun == [script |-> "none"]

\* the Set Up Sheet with nothing on its tabs
NoSetUp == [set_up |-> <<>>, scheduled |-> <<>>, errors |-> <<>>]

\* hq = hq[3:]: the rows above the first contact row; E4:L starts at row 4
MobilizeHeaderRows == 3
FirstWrittenRow == 4


----------------------------------------------------------------------------
(* mobilize_sync.py *)

\* get_mobilize_data: None for an empty query, else the rows keyed by email
RECURSIVE DictOfRows(_, _)
DictOfRows(rows, dict) ==
    IF rows = <<>> THEN dict
    ELSE DictOfRows(Tail(rows), Put(dict, Head(rows).email, Head(rows)))

get_mobilize_data(mobilize_data) ==
    IF Len(mobilize_data) = 0 THEN None ELSE DictOfRows(mobilize_data, <<>>)

\* hq_columns_list[hq_columns['total_signups']:hq_columns['interest_form_responses']]
update_items == SubSeq(hq_columns_list, hq_columns("total_signups") + 1, hq_columns("interest_form_responses"))

\* SubstituteMobilize taking every field of the Mobilize record
SubstituteMobilize_All(hq_row, mobilize_row) ==
    [c \in DOMAIN hq_row |->
        IF \E i \in 1..Len(update_items) : update_items[i] = c
        THEN Str(mobilize_row[c])
        ELSE IF c \in DOMAIN mobilize_row THEN mobilize_row[c]
        ELSE hq_row[c]]

\* for i in update_items: hq_row[hq_columns[i]] = mobilize_dict[hq_email][i]
SubstituteMobilize(hq_row, mobilize_row) ==
    [c \in DOMAIN hq_row |->
        IF \E i \in 1..Len(update_items) : update_items[i] = c
        THEN Str(mobilize_row[c])
        ELSE hq_row[c]]

\* mark_as_claimed writing whatever the source and the date on record
mark_as_claimed_Always(hq_row, idx, worksheet, today) ==
    update_acell(worksheet, "date_claimed", idx + 4, strftime(today))

\* mark_as_claimed of mobilize_sync.py: idx + 4 is the sheet row
mark_as_claimed(hq_row, idx, worksheet, today) ==
    IF hq_row.source = NATIONAL /\ Len(hq_row.date_claimed) = 0
    THEN update_acell(worksheet, "date_claimed", idx + 4, strftime(today))
    ELSE worksheet

\* the try block of the loop of mobilize_updates for a row found in the dict:
\* the row with the status assigned is appended from the status column on,
\* the contact marked as claimed and removed from the dict
MobilizeHit(st, idx, substituted, status, today) ==
    IF status = TypeError
    THEN [st EXCEPT !.raised = TRUE]
    ELSE [dict |-> Del(st.dict, substituted.email),
          updates |-> Append(st.updates, Slice([substituted EXCEPT !.status = status], hq_columns("status"), hq_columns("interest_form_responses"))),
          worksheet |-> mark_as_claimed(substituted, idx, st.worksheet, today),
          raised |-> FALSE]

\* MobilizeMiss writing blanks instead of the values on record
MobilizeMiss_Blank(st, hq_row, status) ==
    IF status = TypeError
    THEN [st EXCEPT !.raised = TRUE]
    ELSE [st EXCEPT !.updates = Append(@, <<status, hq_row.date_joined, <<>>, <<>>, <<>>, <<>>, <<>>, <<>> >>)]

\* MobilizeMiss appending no update row for a contact without a match
MobilizeMiss_Skip(st, hq_row, status) == st

\* the except KeyError block: the status and the values on record
MobilizeMiss(st, hq_row, status) ==
    IF status = TypeError
    THEN [st EXCEPT !.raised = TRUE]
    ELSE [st EXCEPT !.updates = Append(@, <<status>> \o Slice(hq_row, hq_columns("date_joined"), hq_columns("interest_form_responses")))]

MobilizeSubstituted(st, idx, substituted, event_threshold, inactivity_threshold, today) ==
    MobilizeHit(st, idx, substituted, assign_status(substituted, st.dict, event_threshold, inactivity_threshold, today), today)

\* one iteration of the loop of mobilize_updates over enumerate(hq);
\* st holds mobilize_dict, event_attendance_updates, the worksheet and
\* whether an exception other than KeyError has left the loop
MobilizeIteration(st, idx, hq_row, event_threshold, inactivity_threshold, today) ==
    IF Has(st.dict, hq_row.email)
    THEN MobilizeSubstituted(st, idx, SubstituteMobilize(hq_row, Get(st.dict, hq_row.email)), event_threshold, inactivity_threshold, today)
    ELSE MobilizeMiss(st, hq_row, assign_status(hq_row, st.dict, event_threshold, inactivity_threshold, today))

RECURSIVE MobilizeLoop(_, _, _, _, _, _)
MobilizeLoop(st, idx, hq, event_threshold, inactivity_threshold, today) ==
    IF idx >= Len(hq) \/ st.raised THEN st
    ELSE MobilizeLoop(MobilizeIteration(st, idx, hq[idx + 1], event_threshold, inactivity_threshold, today),
                      idx + 1, hq, event_threshold, inactivity_threshold, today)

\* a row of hub_hq_append: the Mobilize record laid out in the HQ columns,
\* status and source filled, every other column empty
MobilizeAppendRow(mobilize_row) ==
    [c \in DOMAIN HeaderRow |->
        IF c = "status" THEN HOT_LEAD
        ELSE IF c = "source" THEN "Mobilize"
        ELSE IF c \in {"first_name", "last_name", "email", "phone", "date_joined"} THEN mobilize_row[c]
        ELSE IF \E i \in 1..Len(update_items) : update_items[i] = c THEN Str(mobilize_row[c])
        ELSE <<>>]

\* after the loop of mobilize_updates: the write of E4:L and the table of
\* the records left in the dict; neither is reached when the loop raised
MobilizeAfterLoop(st) ==
    IF st.raised
    THEN [raised |-> TRUE, worksheet |-> st.worksheet, updates |-> st.updates,
          unmatched |-> st.dict, hub_hq_append |-> <<>>]
    ELSE [raised |-> FALSE,
          worksheet |-> update(st.worksheet, hq_columns("status"), FirstWrittenRow, st.updates),
          updates |-> st.updates,
          unmatched |-> st.dict,
          hub_hq_append |-> [i \in 1..Len(st.dict) |-> MobilizeAppendRow(st.dict[i].val)]]

mobilize_updates(mobilize_dict, hq, worksheet, event_threshold, inactivity_threshold, today) ==
    MobilizeAfterLoop(MobilizeLoop([dict |-> mobilize_dict, updates |-> <<>>, worksheet |-> worksheet, raised |-> FALSE],
                                   0, hq, event_threshold, inactivity_threshold, today))

\* the settings sheet of the hub: E4 (inactivity) and F4 (events)
SettingsE4 == 1
SettingsF4 == 1

\* what main leaves behind after mobilize_updates and append_to_sheet
MobilizeOutcome(hq, mobilize_data, mobilize_dict, res) ==
    /\ hq_worksheet' = res.worksheet \o res.hub_hq_append
    /\ hq_errors' = IF res.raised
                    THEN Append(hq_errors, <<"mobilize_sync", "Error updating event history">>)
                    ELSE hq_errors
    /\ run' = [script |-> "mobilize_sync", merged |-> ~res.raised, hq |-> hq, first_row |-> MobilizeHeaderRows + 1,
               source |-> mobilize_data, index |-> mobilize_dict,
               updates |-> res.updates, unmatched |-> res.unmatched,
               append |-> res.hub_hq_append]

MobilizeQueried(hq, mobilize_data, mobilize_dict) ==
    IF mobilize_dict = None
    THEN /\ hq_errors' = Append(hq_errors, <<"mobilize_script", "No mobilize events associated with hub email">>)
         /\ run' = [script |-> "mobilize_sync", merged |-> FALSE, hq |-> hq, first_row |-> MobilizeHeaderRows + 1, source |-> mobilize_data]
         /\ UNCHANGED hq_worksheet
    ELSE MobilizeOutcome(hq, mobilize_data, mobilize_dict,
                         mobilize_updates(mobilize_dict, hq, hq_worksheet, SettingsF4, SettingsE4, now))

\* main of mobilize_sync.py for the hub, given the result of the query
MobilizeMain(mobilize_data) ==
    MobilizeQueried(SubSeq(hq_worksheet, MobilizeHeaderRows + 1, Len(hq_worksheet)), mobilize_data, get_mobilize_data(mobilize_data))

----------------------------------------------------------------------------
(* sheets_sync.py *)

\* signup_columns: the 0-based columns of the Interest Form / Data Entry sheets
signup_columns_list == <<"date_joined", "first_name", "last_name", "email", "phone", "zipcode", "birthyear">>
signup_columns(name) == (CHOOSE i \in 1..Len(signup_columns_list) : signup_columns_list[i] = name) - 1

\* row[i] of a Python list held as a sequence
At(list, i) == list[i + 1]

\* the count of populated cells above which the placeholder is shown
TooManyCols == 13
TooMuchData == <<"Too much data to display \nUse ctr + f to find persons data\nin Interest Form or Data Entry sheet">>
LabelLen == 20

Min(a, b) == IF a <= b THEN a ELSE b

\* text[:n]
Prefix(text, n) == SubSeq(text, 1, Min(n, Len(text)))

\* JoinLaterRow with the later value put in place of the earlier one
JoinLaterRow_Overwrite(kept, row, email_address) ==
    [j \in 1..Len(kept) |->
        IF /\ j - 1 >= signup_columns("birthyear") + 1
           /\ j - 1 < Len(row)
           /\ row[j] # <<>> /\ email_address # <<>>
        THEN row[j]
        ELSE kept[j]]

\* the while loop over a later row of a known email: every non-empty cell
\* from the column after birthyear on is joined to the row kept in the dict
JoinLaterRow(kept, row, email_address) ==
    [j \in 1..Len(kept) |->
        IF /\ j - 1 >= signup_columns("birthyear") + 1
           /\ j - 1 < Len(row)
           /\ row[j] # <<>> /\ email_address # <<>>
        THEN kept[j] \o <<",", " ">> \o row[j]
        ELSE kept[j]]

\* the first loop of construct_update_dictionary
RECURSIVE CollectRows(_, _)
CollectRows(data, sheet_dict) ==
    IF data = <<>> THEN sheet_dict
    ELSE CollectRows(Tail(data),
            IF Has(sheet_dict, At(Head(data), signup_columns("email")))
            THEN Put(sheet_dict, At(Head(data), signup_columns("email")),
                     JoinLaterRow(Get(sheet_dict, At(Head(data), signup_columns("email"))), Head(data), At(Head(data), signup_columns("email"))))
            ELSE IF At(Head(data), signup_columns("email")) # <<>>
                 THEN Put(sheet_dict, At(Head(data), signup_columns("email")), Head(data))
                 ELSE sheet_dict)

\* Concatenate with each further segment put in front of the field
RECURSIVE Concatenate_Prepend(_, _, _)
Concatenate_Prepend(contact_row, i, header) ==
    IF i >= Len(contact_row) THEN contact_row
    ELSE Concatenate_Prepend(
            IF At(contact_row, i) # <<>> /\ i = signup_columns("birthyear") + 1
            THEN [contact_row EXCEPT ![i + 1] = Prefix(At(header, i), LabelLen) \o <<":", " ">> \o @ \o <<"\n">>]
            ELSE IF At(contact_row, i) # <<>>
            THEN [contact_row EXCEPT ![signup_columns("birthyear") + 2] =
                        Prefix(At(header, i), LabelLen) \o <<":", " ">> \o At(contact_row, i) \o <<"\n">> \o @]
            ELSE contact_row,
            i + 1, header)

\* the while loop that compiles the columns from concat_column on into the
\* cell at concat_column, each value after the first 20 characters of its
\* column header
RECURSIVE Concatenate(_, _, _)
Concatenate(contact_row, i, header) ==
    IF i >= Len(contact_row) THEN contact_row
    ELSE Concatenate(
            IF At(contact_row, i) # <<>> /\ i = signup_columns("birthyear") + 1
            THEN [contact_row EXCEPT ![i + 1] = Prefix(At(header, i), LabelLen) \o <<":", " ">> \o @ \o <<"\n">>]
            ELSE IF At(contact_row, i) # <<>>
            THEN [contact_row EXCEPT ![signup_columns("birthyear") + 2] =
                        @ \o Prefix(At(header, i), LabelLen) \o <<":", " ">> \o At(contact_row, i) \o <<"\n">>]
            ELSE contact_row,
            i + 1, header)

\* the body of the second loop for one contact
CompileContact(contact_row, header) ==
    Prefix(IF Cardinality({j \in 1..Len(contact_row) : Len(contact_row[j]) > 0}) > TooManyCols
           THEN [contact_row EXCEPT ![signup_columns("birthyear") + 2] = TooMuchData]
           ELSE Concatenate(contact_row, signup_columns("birthyear") + 1, header),
           signup_columns("birthyear") + 2)

CompileAll(sheet_dict, header) ==
    [i \in 1..Len(sheet_dict) |-> [key |-> sheet_dict[i].key, val |-> CompileContact(sheet_dict[i].val, header)]]

\* worksheet[0] is the row of column headers, worksheet[1:] the data
construct_update_dictionary(worksheet) ==
    CompileAll(CollectRows(Tail(worksheet), <<>>), Head(worksheet))

\* hq = hq[2:]: the rows above the first row read
SheetsHeaderRows == 2

\* mark_as_claimed of sheets_sync.py: idx + 3 is the sheet row
mark_as_claimed_sheets(hq_row, idx, worksheet, today) ==
    IF hq_row.source = NATIONAL /\ Len(hq_row.date_claimed) = 0
    THEN update_acell(worksheet, "date_claimed", idx + 3, strftime(today))
    ELSE worksheet

\* one iteration of the loop of hq_updates over enumerate(hq)
SheetsIteration(st, idx, hq_row) ==
    IF Has(st.dict, hq_row.email)
    THEN [dict |-> Del(st.dict, hq_row.email),
          updates |-> Append(st.updates, <<At(Get(st.dict, hq_row.email), signup_columns("birthyear") + 1)>>),
          worksheet |-> mark_as_claimed_sheets(hq_row, idx, st.worksheet, st.today),
          today |-> st.today]
    ELSE [st EXCEPT !.updates = Append(@, << <<>> >>)]

RECURSIVE SheetsLoop(_, _, _)
SheetsLoop(st, idx, hq) ==
    IF idx >= Len(hq) THEN st
    ELSE SheetsLoop(SheetsIteration(st, idx, hq[idx + 1]), idx + 1, hq)

\* the column of the Hub HQ a pass writes, and the source it records
ResponseColumn(sheet) == IF sheet = "form responses" THEN "interest_form_responses" ELSE "data_entry_data"
SourceName(sheet) == IF sheet = "form responses" THEN "Interest Form" ELSE "Data Entry Sheet"

\* a row of hq_append_tbl: the compiled record laid out in the HQ columns,
\* an empty date_joined filled with the time of the run, status and source filled
SheetsAppendRow(contact_row, sheet, today) ==
    [c \in DOMAIN HeaderRow |->
        IF c = "status" THEN HOT_LEAD
        ELSE IF c = "source" THEN SourceName(sheet)
        ELSE IF c = "date_joined"
             THEN (IF At(contact_row, signup_columns("date_joined")) = <<>>
                   THEN strftime(today)
                   ELSE At(contact_row, signup_columns("date_joined")))
        ELSE IF c = ResponseColumn(sheet) THEN At(contact_row, signup_columns("birthyear") + 1)
        ELSE IF c \in {"first_name", "last_name", "email", "phone", "zipcode", "birthyear"}
             THEN At(contact_row, signup_columns(c))
        ELSE <<>>]

\* SheetsAfterLoop without `del updates[0]`
SheetsAfterLoop_KeepHeader(st, sheet) ==
    [worksheet |-> update(st.worksheet, hq_columns(ResponseColumn(sheet)), FirstWrittenRow, st.updates),
     updates |-> st.updates,
     unmatched |-> st.dict,
     hq_append_tbl |-> [i \in 1..Len(st.dict) |-> SheetsAppendRow(st.dict[i].val, sheet, st.today)]]

\* after the loop of hq_updates: the update of the header row is dropped, the
\* rest written to M4:M or N4:N, the records left in the dict made a table
SheetsAfterLoop(st, sheet) ==
    [worksheet |-> update(st.worksheet, hq_columns(ResponseColumn(sheet)), FirstWrittenRow, Tail(st.updates)),
     updates |-> Tail(st.updates),
     unmatched |-> st.dict,
     hq_append_tbl |-> [i \in 1..Len(st.dict) |-> SheetsAppendRow(st.dict[i].val, sheet, st.today)]]

hq_updates(sheet_dict, hq, sheet, worksheet, today) ==
    SheetsAfterLoop(SheetsLoop([dict |-> sheet_dict, updates |-> <<>>, worksheet |-> worksheet, today |-> today], 0, hq), sheet)

\* what main leaves behind after hq_updates and append_to_sheet
SheetsOutcome(hq, sheet, values, sheet_dict, res) ==
    /\ hq_worksheet' = res.worksheet \o res.hq_append_tbl
    /\ run' = [script |-> "sheets_sync", sheet |-> sheet, merged |-> TRUE, hq |-> hq, first_row |-> SheetsHeaderRows + 1,
               source |-> values, index |-> sheet_dict,
               updates |-> res.updates, unmatched |-> res.unmatched,
               append |-> res.hq_append_tbl]
    /\ UNCHANGED hq_errors

SheetsCompiled(hq, sheet, values, sheet_dict) ==
    SheetsOutcome(hq, sheet, values, sheet_dict, hq_updates(sheet_dict, hq, sheet, hq_worksheet, now))

\* one pass of main of sheets_sync.py for the hub: values are all the rows
\* of the Interest Form ('form responses') or Data Entry sheet
SheetsPass(sheet, values) ==
    SheetsCompiled(SubSeq(hq_worksheet, SheetsHeaderRows + 1, Len(hq_worksheet)), sheet, values, construct_update_dictionary(Tail(values)))

----------------------------------------------------------------------------
(* interest_form_data_entry_sheet_script.py *)

\* signup_columns of this script: its keys are the labels of the form
interest_form_signup_columns_list == <<"Timestamp", "First Name", "Last Name", "Email Address", "Phone Number", "Zipcode">>
interest_form_has_column(name) == \E i \in 1..Len(interest_form_signup_columns_list) : interest_form_signup_columns_list[i] = name
interest_form_signup_columns(name) == (CHOOSE i \in 1..Len(interest_form_signup_columns_list) : interest_form_signup_columns_list[i] = name) - 1

\* the cell of the row of column headers under which the emails stand; the
\* key that `del sheet_dict['Email Address']` removes
EmailAddress == <<"E">>

\* the for loop of the try block, were signup_columns['zipcode'] a key: the
\* non-empty cells right of the zipcode column joined to the row kept
InterestFormJoinLaterRow(kept, row) ==
    [j \in 1..Len(kept) |->
        IF j - 1 >= interest_form_signup_columns("Zipcode") + 1 /\ j - 1 < Len(row) /\ Len(row[j]) # 0
        THEN kept[j] \o <<",", " ">> \o row[j]
        ELSE kept[j]]

\* the try/except KeyError of the first loop for one row: a KeyError of
\* sheet_dict[email] and a KeyError of signup_columns['zipcode'] both end in
\* the except clause, which stores the row under its email
InterestFormStoreRow(sheet_dict, row) ==
    IF Has(sheet_dict, At(row, interest_form_signup_columns("Email Address"))) /\ interest_form_has_column("zipcode")
    THEN Put(sheet_dict, At(row, interest_form_signup_columns("Email Address")),
             InterestFormJoinLaterRow(Get(sheet_dict, At(row, interest_form_signup_columns("Email Address"))), row))
    ELSE Put(sheet_dict, At(row, interest_form_signup_columns("Email Address")), row)

\* the first loop: every row of the worksheet, the row of column headers too
RECURSIVE InterestFormCollectRows(_, _)
InterestFormCollectRows(data, sheet_dict) ==
    IF data = <<>> THEN sheet_dict
    ELSE InterestFormCollectRows(Tail(data), InterestFormStoreRow(sheet_dict, Head(data)))

\* the first column right of zipcode gets its whole header as label
InterestFormLabelFirst(contact_row, header) ==
    IF Len(At(contact_row, interest_form_signup_columns("Zipcode") + 1)) > 0
    THEN [contact_row EXCEPT ![interest_form_signup_columns("Zipcode") + 2] =
                At(header, interest_form_signup_columns("Zipcode") + 1) \o <<":", " ">> \o @ \o <<"\n">>]
    ELSE contact_row

\* the for loop over the columns from two right of zipcode on
RECURSIVE InterestFormConcatenate(_, _, _)
InterestFormConcatenate(contact_row, i, header) ==
    IF i >= Len(contact_row) THEN contact_row
    ELSE InterestFormConcatenate(
            IF Len(At(contact_row, i)) = 0 THEN contact_row
            ELSE [contact_row EXCEPT ![interest_form_signup_columns("Zipcode") + 2] =
                        @ \o Prefix(At(header, i), LabelLen) \o <<":", " ">> \o At(contact_row, i) \o <<"\n">>],
            i + 1, header)

\* the body of the second loop for one contact
InterestFormCompileContact(contact_row, header) ==
    Prefix(IF Cardinality({j \in 1..Len(contact_row) : Len(contact_row[j]) > 0}) > TooManyCols
           THEN [contact_row EXCEPT ![interest_form_signup_columns("Zipcode") + 2] = TooMuchData]
           ELSE InterestFormConcatenate(InterestFormLabelFirst(contact_row, header), interest_form_signup_columns("Zipcode") + 2, header),
           interest_form_signup_columns("Zipcode") + 2)

InterestFormCompileAll(sheet_dict, header) ==
    [i \in 1..Len(sheet_dict) |-> [key |-> sheet_dict[i].key, val |-> InterestFormCompileContact(sheet_dict[i].val, header)]]

\* construct_update_dictionary of interest_form_data_entry_sheet_script.py:
\* worksheet[0] is the row of column headers
interest_form_construct_update_dictionary(worksheet) ==
    InterestFormCompileAll(Del(InterestFormCollectRows(worksheet, <<>>), EmailAddress), Head(worksheet))

----------------------------------------------------------------------------
(* everyaction_sync.py *)

\* Table(hq_lists[2:]): two rows of instructions, then the row that names
\* the columns; the contacts start on the row after it
TableHeaderRows == 3
get_hq(worksheet) == SubSeq(worksheet, TableHeaderRows + 1, Len(worksheet))

Max(S) == CHOOSE x \in S : \A y \in S : y <= x

\* last_successful_syncs, the hub's row selected: MAX(date_of_ea_sync_success),
\* None for a hub without a row (the lookup then raises)
last_successful_syncs(control) ==
    IF Len(control) = 0 THEN None ELSE Some(Max({control[i] : i \in 1..Len(control)}))

\* the try block of main: the rows whose 'Date Joined' is later than the
\* last sync; the except block of a hub without a sync takes every row
select_new_hq_contacts(hq, date_tbl) ==
    IF date_tbl = None
    THEN hq
    ELSE SelectSeq(hq, LAMBDA row : strptime(row.date_joined) > date_tbl[1])

\* subscribe_to_ea: one upsert per contact; an upsert that raises is logged
\* in upsert_errors and the loop goes on (raising: the emails EveryAction
\* refuses in this run)
subscribe_to_ea(new_hq_contacts, raising, today) ==
    [upserted |-> {[email |-> new_hq_contacts[i].email, date |-> today] : i \in {j \in 1..Len(new_hq_contacts) : new_hq_contacts[j].email \notin raising}},
     errors |-> {[email |-> new_hq_contacts[i].email, date |-> today] : i \in {j \in 1..Len(new_hq_contacts) : new_hq_contacts[j].email \in raising}}]

\* the body of the loop of main for the hub, and the rs.copy of
\* control_table_update that follows the loop
EverySyncHub(hq, date_tbl, new_hq_contacts, res) ==
    /\ everyaction' = everyaction \cup res.upserted
    /\ upsert_errors' = upsert_errors \cup res.errors
    /\ control_table' = Append(control_table, now)
    /\ hq_errors' = IF date_tbl = None
                    THEN Append(hq_errors, <<"everyaction_sync", "No record of hub in control table, could be hubs first run">>)
                    ELSE hq_errors
    /\ run' = [script |-> "everyaction_sync", merged |-> FALSE, hq |-> hq,
               date_last_sync |-> date_tbl, new_hq_contacts |-> new_hq_contacts,
               upserted |-> res.upserted, errors |-> res.errors,
               control_table |-> control_table]
    /\ UNCHANGED hq_worksheet

EverySyncSelected(hq, date_tbl, new_hq_contacts, raising) ==
    EverySyncHub(hq, date_tbl, new_hq_contacts, subscribe_to_ea(new_hq_contacts, raising, now))

EverySyncRead(hq, date_tbl, raising) ==
    EverySyncSelected(hq, date_tbl, select_new_hq_contacts(hq, date_tbl), raising)

\* main of everyaction_sync.py for the hub
EverySyncMain(raising) ==
    EverySyncRead(get_hq(hq_worksheet), last_successful_syncs(control_table), raising)

----------------------------------------------------------------------------
(* new_national_contacts_sync.py *)

\* a row of the query of query_everyaction: one row per email
NtlRow(email, tag, date_joined) ==
    [first_name |-> tag, last_name |-> tag, email |-> email, phone |-> tag,
     date_joined |-> <<date_joined>>, birthyear |-> tag, is_most_recent |-> TRUE]

\* hq_ntl_contacts: the rows of the Hub HQ that came from the national list
hq_ntl_contacts(hub_hq_tbl) == SelectSeq(hub_hq_tbl, LAMBDA row : row.source = NATIONAL)

\* hub_hq_emails
hub_hq_emails(hub_hq_tbl) == {hub_hq_tbl[i].email : i \in 1..Len(hub_hq_tbl)}

\* the selection that lets every queried contact through
select_new_ntl_contacts_All(ntl_contacts, hub_hq_tbl) == ntl_contacts
\* new_ntl_contacts: the queried rows whose email is not in the Hub HQ
select_new_ntl_contacts(ntl_contacts, hub_hq_tbl) ==
    SelectSeq(ntl_contacts, LAMBDA row : row.email \notin hub_hq_emails(hub_hq_tbl))

\* a row of append_tbl: source and status added, is_most_recent removed, the
\* columns laid out as in hq_columns_list
NtlAppendRow(ntl_row) ==
    [c \in DOMAIN HeaderRow |->
        IF c = "status" THEN HOT_LEAD
        ELSE IF c = "source" THEN NATIONAL
        ELSE IF c \in {"first_name", "last_name", "email", "phone", "date_joined", "birthyear"} THEN ntl_row[c]
        ELSE <<>>]

append_tbl(new_ntl_contacts) == [i \in 1..Len(new_ntl_contacts) |-> NtlAppendRow(new_ntl_contacts[i])]

\* append_to_sheet and its handlers: a table without rows raises ValueError
\* and is only logged; any other exception leaves an error row
NationalAppend(hub_hq_tbl, ntl_contacts, tbl, append_ok) ==
    /\ hq_worksheet' = IF append_ok \/ Len(tbl) = 0 THEN hq_worksheet \o tbl ELSE hq_worksheet
    /\ hq_errors' = IF append_ok \/ Len(tbl) = 0
                    THEN hq_errors
                    ELSE Append(hq_errors, <<"new_national_contacts_sync", "Error appending contacts to sheet">>)
    /\ run' = [script |-> "new_national_contacts_sync", merged |-> FALSE, hq |-> hub_hq_tbl,
               queried |-> TRUE, source |-> ntl_contacts, append |-> tbl,
               appended |-> append_ok \/ Len(tbl) = 0]

\* the else branch of main: ntl_contacts is the table the query returned
NationalQueried(hub_hq_tbl, ntl_contacts, append_ok) ==
    NationalAppend(hub_hq_tbl, ntl_contacts, append_tbl(select_new_ntl_contacts(ntl_contacts, hub_hq_tbl)), append_ok)

\* a hub left by `continue`: the zipcode search or the query has logged an
\* error and returned None
NationalSkipped(hub_hq_tbl, note) ==
    /\ hq_errors' = Append(hq_errors, <<"new_national_contacts_sync", note>>)
    /\ run' = [script |-> "new_national_contacts_sync", merged |-> FALSE, hq |-> hub_hq_tbl,
               queried |-> FALSE, source |-> <<>>, append |-> <<>>, appended |-> FALSE]
    /\ UNCHANGED hq_worksheet

\* a Hub HQ without a national row: hq_ntl_contacts[-1] raises outside any
\* try block and the script ends there, the errors collected so far unsaved
NationalAborted(hub_hq_tbl) ==
    /\ run' = [script |-> "new_national_contacts_sync", merged |-> FALSE, hq |-> hub_hq_tbl,
               queried |-> FALSE, source |-> <<>>, append |-> <<>>, appended |-> FALSE]
    /\ UNCHANGED <<hq_worksheet, hq_errors>>

\* last_date: 'Date Joined' of the last national row of the Hub HQ
last_date(hub_hq_tbl) == hq_ntl_contacts(hub_hq_tbl)[Len(hq_ntl_contacts(hub_hq_tbl))].date_joined

\* the query returns the contacts modified after last_date, one row per email
QueryAnswers(ntl_contacts, hub_hq_tbl) ==
    /\ \A i, j \in 1..Len(ntl_contacts) : i # j => ntl_contacts[i].email # ntl_contacts[j].email
    /\ \A i \in 1..Len(ntl_contacts) : strptime(ntl_contacts[i].date_joined) > strptime(last_date(hub_hq_tbl))

\* the body of the loop of main for the hub; zip_ok, query_ok and append_ok
\* tell which of the calls to the zipcode database, Redshift and Google
\* Sheets go through
NationalHub(hub_hq_tbl, zip_ok, query_ok, ntl_contacts, append_ok) ==
    IF ~zip_ok THEN NationalSkipped(hub_hq_tbl, "Zipcode search error")
    ELSE IF Len(hq_ntl_contacts(hub_hq_tbl)) = 0 THEN NationalAborted(hub_hq_tbl)
    ELSE IF ~query_ok THEN NationalSkipped(hub_hq_tbl, "Issue with redshift query")
    ELSE NationalQueried(hub_hq_tbl, ntl_contacts, append_ok)

NationalMain(zip_ok, query_ok, ntl_contacts, append_ok) ==
    NationalHub(get_hq(hq_worksheet), zip_ok, query_ok, ntl_contacts, append_ok)

----------------------------------------------------------------------------
(* setup_script.py *)

\* a row of the 'set up' tab; the hub's spreadsheet is known by the same name
SetupHubRow(name) == [hub_name |-> name, spreadsheet_id |-> name]

\* a row of the query of query_everyaction of setup_script.py
SetupNtlRow(email, tag, date_joined) ==
    [vanid |-> tag, first_name |-> tag, last_name |-> tag, email |-> email, phone |-> tag,
     date_joined |-> <<date_joined>>, birthyear |-> tag, is_most_recent |-> TRUE]

mobilize_emails(mobilize_table) == {mobilize_table[i].email : i \in 1..Len(mobilize_table)}

\* the selection that lets every national contact through
ntl_subset_All(ntl_contacts, mobilize_table) == ntl_contacts
\* ntl_subset: the national contacts whose email is not a Mobilize email
ntl_subset(ntl_contacts, mobilize_table) ==
    SelectSeq(ntl_contacts, LAMBDA row : row.email \notin mobilize_emails(mobilize_table))

\* a row of hub_hq_append: the source added, vanid and is_most_recent
\* removed, the columns of hq_columns_list filled from the row where it has
\* them; the status is left empty
SetupAppendRow(row, source) ==
    [c \in DOMAIN HeaderRow |->
        IF c = "source" THEN source
        ELSE IF c = "status" THEN ""
        ELSE IF c \in DOMAIN row
             THEN (IF \E i \in 1..Len(update_items) : update_items[i] = c THEN Str(row[c]) ELSE row[c])
        ELSE <<>>]

SetupConcat(subset, mobilize_table) ==
    [i \in 1..Len(subset) |-> SetupAppendRow(subset[i], NATIONAL)]
        \o [i \in 1..Len(mobilize_table) |-> SetupAppendRow(mobilize_table[i], "Mobilize")]

\* hub_hq_append: ntl_subset, then the Mobilize table
hub_hq_append(ntl_contacts, mobilize_table) ==
    SetupConcat(ntl_subset(ntl_contacts, mobilize_table), mobilize_table)

\* log_error and errored_hub_list.append of a failed call
SetupFailed(st, hub, note) ==
    [st EXCEPT !.errors = Append(@, <<hub.hub_name, note>>),
               !.errored_hub_list = Append(@, hub.hub_name)]

\* the step of the loop body that raises outside any try block: add_column
\* called on the None a failed query has returned ends the script
SetupRaised(st) == [st EXCEPT !.raised = TRUE]

\* the try block of the loop body: a table without rows makes
\* append_to_sheet raise as a refused request does
SetupAppend(st, hub, tbl, append_ok) ==
    IF append_ok /\ Len(tbl) > 0
    THEN [st EXCEPT !.sheets = [@ EXCEPT ![hub.spreadsheet_id] = @ \o tbl]]
    ELSE SetupFailed(st, hub, "Error appending new contacts")

\* the body of the loop of main for one hub; failure names the call that
\* fails for the hub, if any. query_everyaction is called with the None a
\* failed zipcode search returns, and the query built from it is refused.
SetupHub(st, hub, failure, ntl_contacts, mobilize_table) ==
    IF failure = "zipcode_search"
    THEN SetupRaised(SetupFailed(SetupFailed(st, hub, "Zip code radius search error"), hub, "Issue querying redshift"))
    ELSE IF failure \in {"query_everyaction", "get_mobilize_data"}
    THEN SetupRaised(SetupFailed(st, hub, "Issue querying redshift"))
    ELSE SetupAppend(st, hub, hub_hq_append(ntl_contacts, mobilize_table), failure # "append_to_sheet")

\* for hub in hubs; input[k] holds what the calls for hubs[k] meet
RECURSIVE SetupLoop(_, _, _, _)
SetupLoop(st, hubs, k, input) ==
    IF k > Len(hubs) \/ st.raised THEN st
    ELSE SetupLoop(SetupHub(st, hubs[k], input[k].failure, input[k].ntl_contacts, input[k].mobilize_table),
                   hubs, k + 1, input)

succeeded_hubs(hubs, errored_hub_list) ==
    SelectSeq(hubs, LAMBDA row : \A i \in 1..Len(errored_hub_list) : errored_hub_list[i] # row.hub_name)

errored_hubs(hubs, errored_hub_list) ==
    SelectSeq(hubs, LAMBDA row : \E i \in 1..Len(errored_hub_list) : errored_hub_list[i] = row.hub_name)

\* the end of main: the hubs that succeeded are appended to 'scheduled',
\* 'set up' is wiped and the errored hubs put back, the errors written below
\* the errors already logged. None of it is reached when the loop raised.
SetupTabs(st, hubs) ==
    IF st.raised
    THEN setup_spreadsheet
    ELSE [set_up |-> errored_hubs(hubs, st.errored_hub_list),
          scheduled |-> setup_spreadsheet.scheduled \o succeeded_hubs(hubs, st.errored_hub_list),
          errors |-> setup_spreadsheet.errors \o st.errors]

SetupOutcome(hubs, input, st) ==
    /\ setup_spreadsheet' = SetupTabs(st, hubs)
    /\ hq_worksheet' = st.sheets
    /\ run' = [script |-> "setup_script", merged |-> FALSE, hubs |-> hubs, input |-> input,
               raised |-> st.raised, errors |-> st.errors, errored_hub_list |-> st.errored_hub_list,
               before |-> setup_spreadsheet]

\* main of setup_script.py
SetupMain(input) ==
    SetupOutcome(setup_spreadsheet.set_up, input,
                 SetupLoop([errors |-> <<>>, errored_hub_list |-> <<>>, sheets |-> hq_worksheet, raised |-> FALSE],
                           setup_spreadsheet.set_up, 1, input))

----------------------------------------------------------------------------
(* errored_upserts_retry.py *)

\* a row of the CSV
RetryRow(hub, email, phone, zip) ==
    [hub |-> hub, first |-> <<"f">>, last |-> <<"l">>, email |-> email, phone |-> phone, zip |-> zip]

\* re.sub("[^0-9]", "", x)
Digits(x) == SelectSeq(x, LAMBDA c : c \in {"0", "1", "2", "3", "4", "5", "6", "7", "8", "9"})

PhoneDigits == 10
ZipDigits == 5

\* x[-10:] of the digits of the phone, x[:5] of the digits of the zip
convert_phone(x) == SubSeq(Digits(x), Max({1, Len(Digits(x)) - PhoneDigits + 1}), Len(Digits(x)))
convert_zip(x) == Prefix(Digits(x), ZipDigits)

\* hub_contacts after the two convert_column
convert_columns(hub_contacts) ==
    [i \in 1..Len(hub_contacts) |->
        [hub |-> hub_contacts[i].hub, first |-> hub_contacts[i].first, last |-> hub_contacts[i].last,
         email |-> hub_contacts[i].email,
         phone |-> convert_phone(hub_contacts[i].phone), zip |-> convert_zip(hub_contacts[i].zip)]]

\* hubs_with_errors: the hubs of the CSV, each once, in the order they appear
RECURSIVE hubs_with_errors(_, _)
hubs_with_errors(contacts, dict) ==
    IF contacts = <<>> THEN dict
    ELSE hubs_with_errors(Tail(contacts), Put(dict, Head(contacts).hub, Head(contacts).hub))

\* api_keys[hub]: every hub has a key of its own
api_keys(hub) == <<"key", hub>>

\* the selection that hands every row of the CSV to every hub
select_hub_contacts_All(contacts, hub) == contacts
\* hub_contacts: the rows of the CSV of this hub
select_hub_contacts(contacts, hub) == SelectSeq(contacts, LAMBDA row : row.hub = hub)

\* json_dict: the phones entry is left out for a contact without a phone
retry_json_dict(contact) ==
    IF Len(contact.phone) > 0
    THEN [firstName |-> contact.first, lastName |-> contact.last, email |-> contact.email,
          zipOrPostalCode |-> contact.zip, phoneNumber |-> Some(contact.phone)]
    ELSE [firstName |-> contact.first, lastName |-> contact.last, email |-> contact.email,
          zipOrPostalCode |-> contact.zip, phoneNumber |-> None]

\* the body of the loop of subscribe_to_ea: the upsert with the hub's key,
\* and the error row of an upsert that raises (raising: the emails
\* EveryAction refuses)
RetryUpsert(st, contact, van, raising) ==
    [upserts |-> Append(st.upserts, [api_key |-> van, json_dict |-> retry_json_dict(contact)]),
     upsert_errors |-> IF contact.email \in raising
                       THEN Append(st.upsert_errors, <<contact.hub, contact.first, contact.last, contact.email, contact.phone, contact.zip>>)
                       ELSE st.upsert_errors]

RECURSIVE retry_subscribe_to_ea(_, _, _, _, _)
retry_subscribe_to_ea(st, hub_contacts, k, van, raising) ==
    IF k > Len(hub_contacts) THEN st
    ELSE retry_subscribe_to_ea(RetryUpsert(st, hub_contacts[k], van, raising), hub_contacts, k + 1, van, raising)

\* for hub in hubs_with_errors
RECURSIVE RetryLoop(_, _, _, _, _)
RetryLoop(st, hubs, k, contacts, raising) ==
    IF k > Len(hubs) THEN st
    ELSE RetryLoop(retry_subscribe_to_ea(st, convert_columns(select_hub_contacts(contacts, hubs[k].key)), 1, api_keys(hubs[k].key), raising),
                   hubs, k + 1, contacts, raising)

\* the end of main: rs.copy when upsert_errors holds more than its header
RetryOutcome(contacts, raising, st) ==
    /\ upsert_errors' = IF Len(st.upsert_errors) > 0
                        THEN upsert_errors \cup {st.upsert_errors[i] : i \in 1..Len(st.upsert_errors)}
                        ELSE upsert_errors
    /\ run' = [script |-> "errored_upserts_retry", merged |-> FALSE, contacts |-> contacts, raising |-> raising,
               upserts |-> st.upserts, upsert_errors |-> st.upsert_errors,
               copied |-> Len(st.upsert_errors) > 0]

\* main of errored_upserts_retry.py
RetryMain(contacts, raising) ==
    RetryOutcome(contacts, raising,
                 RetryLoop([upserts |-> <<>>, upsert_errors |-> <<>>], hubs_with_errors(contacts, <<>>), 1, contacts, raising))

----------------------------------------------------------------------------
(* mobilize_sync.py: main over the hubs of the 'scheduled' tab *)

\* log_error, and the row appended for a hub without Mobilize events
MobilizeLogged(st, hub, script, note) ==
    [st EXCEPT !.hq_errors = Append(@, <<script, hub.hub_name, note>>)]

\* the hubs for which a call raised, caught or not
MobilizeFailed(st, hub) == [st EXCEPT !.failed = Append(@, hub.hub_name)]

\* an exception outside the try blocks of main ends the script
MobilizeUncaught(st, hub) == [MobilizeFailed(st, hub) EXCEPT !.raised = TRUE]

\* the inner try of main: append_to_sheet; a table without rows raises
\* ValueError, which is not logged in hq_errors
MobilizeAppended(st, hub, res, append_ok) ==
    IF Len(res.hub_hq_append) = 0
    THEN [st EXCEPT !.sheets = [@ EXCEPT ![hub.spreadsheet_id] = res.worksheet]]
    ELSE IF append_ok
    THEN [st EXCEPT !.sheets = [@ EXCEPT ![hub.spreadsheet_id] = res.worksheet \o res.hub_hq_append]]
    ELSE MobilizeLogged(MobilizeFailed([st EXCEPT !.sheets = [@ EXCEPT ![hub.spreadsheet_id] = res.worksheet]], hub),
                        hub, "mobilize_script", "Error adding new Mobilize contacts")

\* the outer try of main after mobilize_updates has returned or raised
MobilizeUpdated(st, hub, res, append_ok) ==
    IF res.raised
    THEN MobilizeLogged(MobilizeFailed([st EXCEPT !.sheets = [@ EXCEPT ![hub.spreadsheet_id] = res.worksheet]], hub),
                        hub, "mobilize_sync", "Error updating event history")
    ELSE MobilizeAppended(st, hub, res, append_ok)

\* the else branch of main: settings_sheet.get is the first call of the try
MobilizeTried(st, hub, mobilize_dict, failure) ==
    IF failure = "settings_get"
    THEN MobilizeLogged(MobilizeFailed(st, hub), hub, "mobilize_sync", "Error updating event history")
    ELSE MobilizeUpdated(st, hub,
                         mobilize_updates(mobilize_dict, SubSeq(st.sheets[hub.spreadsheet_id], MobilizeHeaderRows + 1, Len(st.sheets[hub.spreadsheet_id])),
                                          st.sheets[hub.spreadsheet_id], SettingsF4, SettingsE4, now),
                         failure # "append_to_sheet")

\* the body of the loop of main for one hub; failure names the call that
\* raises for the hub, if any. Only connect_to_sheet(hub, 'hq') and the
\* calls from settings_sheet.get on are inside a try block.
MobilizeHub(st, hub, failure, mobilize_data) ==
    IF failure = "connect_hq" THEN MobilizeLogged(MobilizeFailed(st, hub), hub, "mobilize_script", "Error connecting to sheet")
    ELSE IF failure \in {"connect_settings", "get_all_values", "query"} THEN MobilizeUncaught(st, hub)
    ELSE IF get_mobilize_data(mobilize_data) = None
    THEN MobilizeLogged(st, hub, "mobilize_script", "No mobilize events associated with hub email")
    ELSE MobilizeTried(st, hub, get_mobilize_data(mobilize_data), failure)

MobilizeVisited(st, hub) == [st EXCEPT !.visited = Append(@, hub.hub_name)]

\* for hub in hubs; input[k] holds what the calls for hubs[k] meet
RECURSIVE MobilizeHubs(_, _, _, _)
MobilizeHubs(st, hubs, k, input) ==
    IF k > Len(hubs) \/ st.raised THEN st
    ELSE MobilizeHubs(MobilizeHub(MobilizeVisited(st, hubs[k]), hubs[k], input[k].failure, input[k].mobilize_data),
                      hubs, k + 1, input)

\* the end of main: rs.copy when hq_errors holds more than its header; not
\* reached when the loop raised
MobilizeScriptOutcome(hubs, input, st) ==
    /\ hq_worksheet' = st.sheets
    /\ hq_errors' = IF ~st.raised /\ Len(st.hq_errors) > 0 THEN hq_errors \o st.hq_errors ELSE hq_errors
    /\ run' = [script |-> "mobilize_sync_hubs", merged |-> FALSE, hubs |-> hubs, input |-> input,
               raised |-> st.raised, visited |-> st.visited, failed |-> st.failed, hq_errors |-> st.hq_errors,
               copied |-> ~st.raised /\ Len(st.hq_errors) > 0, before |-> hq_errors]

\* main of mobilize_sync.py over all hubs
MobilizeScriptMain(hubs, input) ==
    MobilizeScriptOutcome(hubs, input,
                          MobilizeHubs([hq_errors |-> <<>>, sheets |-> hq_worksheet, raised |-> FALSE, visited |-> <<>>, failed |-> <<>>],
                                       hubs, 1, input))

----------------------------------------------------------------------------
(* Specification Spec: one hub's Hub HQ and the scripts run on it *)

Emails == {<<"a">>, <<"A">>, <<"b">>}
JoinDates == {0, Today}

\* a contact row as new_national_contacts_sync leaves it
NationalRow(email, joined) == HqRow(email, <<"h">>, HOT_LEAD, <<joined>>, NATIONAL, <<>>)

\* a contact row that came from the hub's own form and has attendance on record
HubRow(email, joined) ==
    [HqRow(email, <<"h">>, PROSPECTIVE, <<joined>>, "Interest Form", <<>>)
        EXCEPT !.total_signups = <<1>>, !.total_attendances = <<1>>,
               !.first_signup = <<joined>>, !.first_attendance = <<joined>>,
               !.days_since_last_signup = <<1>>, !.days_since_last_attendance = <<1>>,
               !.interest_form_responses = <<"o">>, !.data_entry_data = <<"o">>]

\* national contacts old and new, hub contacts that joined on day 0
ContactRows == {NationalRow(e, d) : e \in Emails, d \in JoinDates} \cup {HubRow(e, 0) : e \in Emails}

RECURSIVE SeqsUpTo(_, _)
SeqsUpTo(S, n) ==
    IF n = 0 THEN {<<>>}
    ELSE LET shorter == SeqsUpTo(S, n - 1)
         IN  shorter \cup {Append(q, x) : q \in {p \in shorter : Len(p) = n - 1}, x \in S}

Distinct(rows) == \A i, j \in 1..Len(rows) : i # j => rows[i].email # rows[j].email

\* the query groups by email: one row per email
MobilizeRows == {MobilizeRow(e, <<"m">>, 0, s, 0) : e \in Emails, s \in 1..2}
MobilizeTables == {t \in SeqsUpTo(MobilizeRows, MaxIncoming) : Distinct(t)}

Init ==
    /\ now = Today
    /\ call = <<>>
    /\ ret = "pending"
    /\ pc = "start"
    /\ hq_worksheet \in {<<HeaderRow, HeaderRow, HeaderRow>> \o rows : rows \in SeqsUpTo(ContactRows, MaxHqRows)}
    /\ hq_errors = <<>>
    /\ run = NoRun
    /\ control_table = <<>>
    /\ everyaction = {}
    /\ upsert_errors = {}
    /\ setup_spreadsheet = NoSetUp

\* a row of the Interest Form (its timestamp filled) or of the Data Entry
\* sheet (no timestamp): the seven leading columns and two further columns
FormRow(email, joined) == <<joined, <<"f">>, <<"f">>, email, <<"f">>, <<"f">>, <<"f">>, <<"v">>, <<"w">> >>
FormTitleRow == <<<<"#">>, <<"#">>, <<"#">>, <<"#">>, <<"#">>, <<"#">>, <<"#">>, <<"#">>, <<"#">> >>
FormHeaderRow == <<<<"T">>, <<"F">>, <<"L">>, <<"E">>, <<"P">>, <<"Z">>, <<"B">>, <<"Q">>, <<"R">> >>

FormSheets(joined, n) == {<<FormTitleRow, FormHeaderRow>> \o rows : rows \in SeqsUpTo({FormRow(e, joined) : e \in Emails}, n)}

MobilizeSync ==
    /\ pc = "start"
    /\ \E mobilize_data \in MobilizeTables : MobilizeMain(mobilize_data)
    /\ pc' = "mobilize_done"
    /\ UNCHANGED <<now, call, ret>>
    /\ UNCHANGED <<ea_vars, setup_vars>>

\* sheets_sync.py, first half of main: the Interest Form
SheetsSyncForm ==
    /\ pc = "start"
    /\ \E values \in FormSheets(<<now>>, MaxIncoming) : SheetsPass("form responses", values)
    /\ pc' = "form_done"
    /\ UNCHANGED <<now, call, ret>>
    /\ UNCHANGED <<ea_vars, setup_vars>>

\* sheets_sync.py, second half of main: the Data Entry sheet, the Hub HQ read
\* again; the two sheets hold MaxIncoming rows together
SheetsSyncDataEntry ==
    /\ pc = "form_done"
    /\ \E values \in FormSheets(<<>>, MaxIncoming - (Len(run.source) - 2)) : SheetsPass("data entry sheet", values)
    /\ pc' = "data_entry_done"
    /\ UNCHANGED <<now, call, ret>>
    /\ UNCHANGED <<ea_vars, setup_vars>>

Next == MobilizeSync \/ SheetsSyncForm \/ SheetsSyncDataEntry

Spec == Init /\ [][Next]_vars

----------------------------------------------------------------------------
(* Specification SpecIndex: the two index builders on rows that repeat emails *)

MaxIndexRows == 3

IndexEmails == {<<"a">>, <<"b">>}
QueryRows == {MobilizeRow(e, tag, 0, s, 0) : e \in IndexEmails, tag \in {<<"m">>, <<"n">>}, s \in 1..2}

\* rows of a form sheet: the email may be missing, the cell right of
\* birthyear may be empty
SheetRows == {<<<<>>, first, <<"f">>, e, <<"f">>, <<"f">>, <<"f">>, q, <<"w">> >> : e \in IndexEmails \cup {<<>>}, first \in {<<"f">>, <<"g">>}, q \in {<<>>, <<"v">>}}

QueryCalls == {[fn |-> "get_mobilize_data", rows |-> rows] : rows \in SeqsUpTo(QueryRows, MaxIndexRows)}
SheetCalls == {[fn |-> "construct_update_dictionary", rows |-> rows] : rows \in SeqsUpTo(SheetRows, MaxIndexRows)}

InitIndex ==
    /\ now = Today
    /\ (call \in QueryCalls \/ call \in SheetCalls)
    /\ ret = "pending"
    /\ pc = "index"
    /\ hq_worksheet = <<>>
    /\ hq_errors = <<>>
    /\ run = NoRun
    /\ control_table = <<>>
    /\ everyaction = {}
    /\ upsert_errors = {}
    /\ setup_spreadsheet = NoSetUp

CallGetMobilizeData ==
    /\ pc = "index" /\ call.fn = "get_mobilize_data"
    /\ run' = [script |-> "index", merged |-> FALSE, index |-> get_mobilize_data(call.rows)]
    /\ pc' = "indexed"
    /\ UNCHANGED <<now, call, ret, hq_worksheet, hq_errors>>
    /\ UNCHANGED <<ea_vars, setup_vars>>

CallConstructUpdateDictionary ==
    /\ pc = "index" /\ call.fn = "construct_update_dictionary"
    /\ run' = [script |-> "index", merged |-> FALSE, index |-> construct_update_dictionary(<<FormHeaderRow>> \o call.rows)]
    /\ pc' = "indexed"
    /\ UNCHANGED <<now, call, ret, hq_worksheet, hq_errors>>
    /\ UNCHANGED <<ea_vars, setup_vars>>

NextIndex == CallGetMobilizeData \/ CallConstructUpdateDictionary

SpecIndex == InitIndex /\ [][NextIndex]_vars

----------------------------------------------------------------------------
(* Specification SpecInterestForm: construct_update_dictionary of
   interest_form_data_entry_sheet_script.py on rows that repeat emails *)

\* the row of column headers and the rows of a form sheet of this script:
\* six leading columns and two columns right of zipcode
InterestFormHeaderRow == <<<<"T">>, <<"F">>, <<"L">>, EmailAddress, <<"P">>, <<"Z">>, <<"Q">>, <<"R">> >>
InterestFormRows == {<<<<"t">>, first, <<"f">>, e, <<"f">>, <<"f">>, q, <<"w">> >> : e \in IndexEmails, first \in {<<"f">>, <<"g">>}, q \in {<<>>, <<"v">>, <<"u">>}}

InitInterestForm ==
    /\ now = Today
    /\ call \in {[fn |-> "interest_form_construct_update_dictionary", rows |-> rows] : rows \in SeqsUpTo(InterestFormRows, MaxIndexRows)}
    /\ ret = "pending"
    /\ pc = "index"
    /\ hq_worksheet = <<>>
    /\ hq_errors = <<>>
    /\ run = NoRun
    /\ control_table = <<>>
    /\ everyaction = {}
    /\ upsert_errors = {}
    /\ setup_spreadsheet = NoSetUp

CallInterestFormDictionary ==
    /\ pc = "index" /\ call.fn = "interest_form_construct_update_dictionary"
    /\ run' = [script |-> "index", merged |-> FALSE, index |-> interest_form_construct_update_dictionary(<<InterestFormHeaderRow>> \o call.rows)]
    /\ pc' = "indexed"
    /\ UNCHANGED <<now, call, ret, hq_worksheet, hq_errors>>
    /\ UNCHANGED <<ea_vars, setup_vars>>

NextInterestForm == CallInterestFormDictionary

SpecInterestForm == InitInterestForm /\ [][NextInterestForm]_vars

----------------------------------------------------------------------------
(* Specification SpecCompile: the two construct_update_dictionary on one
   contact's row with up to MaxTrailing columns right of the leading ones *)

MaxTrailing == 8

\* the header and the value of each column of a wide sheet
Upper == <<"T", "F", "L", "E", "P", "Z", "B", "G", "H", "I", "J", "K", "M", "N", "O", "Q", "R", "S">>
Lower == <<"t", "f", "l", "a", "p", "z", "b", "g", "h", "i", "j", "k", "m", "n", "o", "q", "r", "s">>
WideHeaderRow(n) == [j \in 1..n |-> <<Upper[j]>>]
WideRow(n, filled) == [j \in 1..n |-> IF j \in filled THEN <<Lower[j]>> ELSE <<>>]

\* every row with a name and an email: each other cell filled or empty
WideRows(n) == {WideRow(n, filled \cup {2, 3, 4}) : filled \in SUBSET ((1..n) \ {2, 3, 4})}

InitCompile ==
    /\ now = Today
    /\ \/ call \in {[fn |-> "construct_update_dictionary", rows |-> <<row>>] : row \in WideRows(Len(signup_columns_list) + MaxTrailing)}
       \/ call \in {[fn |-> "interest_form_construct_update_dictionary", rows |-> <<row>>] : row \in WideRows(Len(interest_form_signup_columns_list) + MaxTrailing)}
    /\ ret = "pending"
    /\ pc = "compile"
    /\ hq_worksheet = <<>>
    /\ hq_errors = <<>>
    /\ run = NoRun
    /\ control_table = <<>>
    /\ everyaction = {}
    /\ upsert_errors = {}
    /\ setup_spreadsheet = NoSetUp

CompileSheetsRow ==
    /\ pc = "compile" /\ call.fn = "construct_update_dictionary"
    /\ run' = [script |-> "compile", merged |-> FALSE, index |-> construct_update_dictionary(<<WideHeaderRow(Len(call.rows[1]))>> \o call.rows)]
    /\ pc' = "compiled"
    /\ UNCHANGED <<now, call, ret, hq_worksheet, hq_errors>>
    /\ UNCHANGED <<ea_vars, setup_vars>>

CompileInterestFormRow ==
    /\ pc = "compile" /\ call.fn = "interest_form_construct_update_dictionary"
    /\ run' = [script |-> "compile", merged |-> FALSE, index |-> interest_form_construct_update_dictionary(<<WideHeaderRow(Len(call.rows[1]))>> \o call.rows)]
    /\ pc' = "compiled"
    /\ UNCHANGED <<now, call, ret, hq_worksheet, hq_errors>>
    /\ UNCHANGED <<ea_vars, setup_vars>>

NextCompile == CompileSheetsRow \/ CompileInterestFormRow

SpecCompile == InitCompile /\ [][NextCompile]_vars

----------------------------------------------------------------------------
(* Specification SpecStatus: assign_status on every bounded input *)

StatusCalls ==
    { [hq_row |-> HqRow(<<"a">>, <<"h">>, "", <<MaxAge - age>>, "Mobilize", <<>>),
       mobilize_dict |-> d, event_threshold |-> et, inactivity_threshold |-> it] :
        age \in 0..MaxAge,
        d \in {<<>>} \cup {<<[key |-> e, val |-> MobilizeRow(e, <<"m">>, 0, s, n)]>> :
                             e \in {<<"a">>, <<"b">>}, s \in 0..MaxSignups, n \in -1..MaxDays},
        et \in 0..MaxEventThreshold, it \in 0..MaxInactivity }

InitStatus ==
    /\ now = MaxAge
    /\ call \in StatusCalls
    /\ ret = "pending"
    /\ pc = "assign_status"
    /\ hq_worksheet = <<>>
    /\ hq_errors = <<>>
    /\ run = NoRun
    /\ control_table = <<>>
    /\ everyaction = {}
    /\ upsert_errors = {}
    /\ setup_spreadsheet = NoSetUp

CallAssignStatus ==
    /\ ret = "pending"
    /\ ret' = assign_status(call.hq_row, call.mobilize_dict, call.event_threshold,
                            call.inactivity_threshold, now)
    /\ UNCHANGED <<now, call, pc, hq_worksheet, hq_errors, run>>
    /\ UNCHANGED <<ea_vars, setup_vars>>

NextStatus == CallAssignStatus

SpecStatus == InitStatus /\ [][NextStatus]_vars

----------------------------------------------------------------------------
(* Specification SpecEverySync: the scheduled scripts of one hub, run one
   after the other in any order: mobilize_sync, sheets_sync and
   new_national_contacts_sync add contacts to the Hub HQ, everyaction_sync
   upserts them *)

MaxRuns == 3                 \* runs of the scripts, one after the other
MaxSyncs == 2                \* runs of everyaction_sync among them
MaxEaRows == 2               \* contact rows of the Hub HQ

EaEmails == {<<"a">>, <<"b">>}

\* the runs take place on the odd days 1, 3, ..; people sign up, fill in the
\* form and are modified in the national list on even days, long ago (day 0)
\* or since the run before this one
SignupDays == {0, now - 1}
Later == now + 2

\* set up has left one contact of the national list, modified on day 0
InitEverySync ==
    /\ now = 1
    /\ call = <<>>
    /\ ret = "pending"
    /\ pc = "scheduled"
    /\ hq_worksheet = <<HeaderRow, HeaderRow, HeaderRow, NationalRow(<<"a">>, 0)>>
    /\ hq_errors = <<>>
    /\ run = NoRun
    /\ control_table = <<>>
    /\ everyaction = {}
    /\ upsert_errors = {}
    /\ setup_spreadsheet = NoSetUp

Fits == Len(hq_worksheet') <= TableHeaderRows + MaxEaRows
Scheduled == pc = "scheduled" /\ now < 2 * MaxRuns

\* mobilize_sync.py: the query returns one contact, signed up on day d
RunMobilizeSync ==
    /\ Scheduled
    /\ \E e \in EaEmails, d \in SignupDays : MobilizeMain(<<MobilizeRow(e, <<"m">>, d, 1, 0)>>)
    /\ Fits
    /\ now' = Later
    /\ UNCHANGED <<call, ret, pc, ea_vars, setup_vars>>

\* sheets_sync.py, first half of main: the Interest Form holds one response,
\* submitted on day d
RunSheetsSyncForm ==
    /\ Scheduled
    /\ \E e \in EaEmails, d \in SignupDays : SheetsPass("form responses", <<FormTitleRow, FormHeaderRow, FormRow(e, <<d>>)>>)
    /\ Fits
    /\ pc' = "form_done"
    /\ UNCHANGED <<now, call, ret, ea_vars, setup_vars>>

\* sheets_sync.py, second half of main: the Data Entry sheet holds no row or
\* one row, which has no timestamp
RunSheetsSyncDataEntry ==
    /\ pc = "form_done"
    /\ \E rows \in {<<>>, <<FormRow(<<"b">>, <<>>)>>} : SheetsPass("data entry sheet", <<FormTitleRow, FormHeaderRow>> \o rows)
    /\ Fits
    /\ pc' = "scheduled"
    /\ now' = Later
    /\ UNCHANGED <<call, ret, ea_vars, setup_vars>>

\* new_national_contacts_sync.py: the query returns one contact
RunNationalSync ==
    /\ Scheduled
    /\ \E e \in EaEmails, d \in SignupDays :
          /\ QueryAnswers(<<NtlRow(e, <<"n">>, d)>>, get_hq(hq_worksheet))
          /\ NationalMain(TRUE, TRUE, <<NtlRow(e, <<"n">>, d)>>, TRUE)
    /\ Fits
    /\ now' = Later
    /\ UNCHANGED <<call, ret, pc, ea_vars, setup_vars>>

\* everyaction_sync.py: EveryAction refuses the upserts of the emails in raising
RunEverySync ==
    /\ Scheduled
    /\ Len(control_table) < MaxSyncs
    /\ \E raising \in SUBSET EaEmails : EverySyncMain(raising)
    /\ now' = Later
    /\ UNCHANGED <<call, ret, pc, setup_vars>>

NextEverySync == RunMobilizeSync \/ RunSheetsSyncForm \/ RunSheetsSyncDataEntry \/ RunNationalSync \/ RunEverySync

SpecEverySync == InitEverySync /\ [][NextEverySync]_vars

----------------------------------------------------------------------------
(* Specification SpecNational: one run of new_national_contacts_sync.py over
   a Hub HQ that may hold any rows, emails repeated or differing in case *)

\* national contacts of the day of the run and contacts of the hub's own
NationalHqRows == {NationalRow(e, Today) : e \in Emails} \cup {HubRow(e, 0) : e \in Emails}

\* the query returns contacts modified after the last national row, one row
\* per email
NtlTables == {t \in SeqsUpTo({NtlRow(e, <<"n">>, Today + 1) : e \in Emails}, MaxIncoming) : Distinct(t)}

\* the call that fails in the run, if any
NationalFailures == {"none", "zipcode_search", "query_everyaction", "append_to_sheet"}

InitNational ==
    /\ now = Today + 1
    /\ call = <<>>
    /\ ret = "pending"
    /\ pc = "start"
    /\ hq_worksheet \in {<<HeaderRow, HeaderRow, HeaderRow>> \o rows : rows \in SeqsUpTo(NationalHqRows, MaxHqRows)}
    /\ hq_errors = <<>>
    /\ run = NoRun
    /\ control_table = <<>>
    /\ everyaction = {}
    /\ upsert_errors = {}
    /\ setup_spreadsheet = NoSetUp

NationalSync ==
    /\ pc = "start"
    /\ \E ntl_contacts \in NtlTables, failure \in NationalFailures :
          /\ Len(hq_ntl_contacts(get_hq(hq_worksheet))) > 0 => QueryAnswers(ntl_contacts, get_hq(hq_worksheet))
          /\ NationalMain(failure # "zipcode_search", failure # "query_everyaction", ntl_contacts, failure # "append_to_sheet")
    /\ pc' = "national_done"
    /\ UNCHANGED <<now, call, ret, ea_vars, setup_vars>>

NextNational == NationalSync

SpecNational == InitNational /\ [][NextNational]_vars

----------------------------------------------------------------------------
(* Specification SpecSetup: one run of setup_script.py over the hubs of the
   'set up' tab; here hq_worksheet holds the 'Hub HQ' worksheet of every
   hub, by spreadsheet id *)

MaxHubs == 2                 \* hubs on the 'set up' tab

HubNames == {<<"h", k>> : k \in 1..MaxHubs}

\* the hubs waiting for set up, their names distinct
SetupTabsBefore == {hubs \in SeqsUpTo({SetupHubRow(name) : name \in HubNames}, MaxHubs) : \A i, j \in 1..Len(hubs) : i # j => hubs[i] # hubs[j]}

SetupFailures == {"none", "zipcode_search", "query_everyaction", "get_mobilize_data", "append_to_sheet"}

\* what the calls for one hub meet: the call that fails and what the two
\* queries return
SetupInputs ==
    [failure : SetupFailures,
     ntl_contacts : {<<>>, <<SetupNtlRow(<<"a">>, <<"n">>, 0)>>},
     mobilize_table : {<<>>, <<MobilizeRow(<<"a">>, <<"m">>, 0, 1, 0)>>}]

InitSetup ==
    /\ now = Today
    /\ call = <<>>
    /\ ret = "pending"
    /\ pc = "start"
    /\ hq_worksheet = [id \in HubNames \cup {<<"h", 0>>} |-> <<HeaderRow, HeaderRow, HeaderRow>>]
    /\ hq_errors = <<>>
    /\ run = NoRun
    /\ control_table = <<>>
    /\ everyaction = {}
    /\ upsert_errors = {}
    /\ \E hubs \in SetupTabsBefore, logged \in {<<>>, << <<<<"h", 0>>, "Error appending new contacts">> >>} :
          setup_spreadsheet = [set_up |-> hubs, scheduled |-> <<SetupHubRow(<<"h", 0>>)>>, errors |-> logged]

SetupScript ==
    /\ pc = "start"
    /\ \E input \in [1..Len(setup_spreadsheet.set_up) -> SetupInputs] : SetupMain(input)
    /\ pc' = "setup_done"
    /\ UNCHANGED <<now, call, ret, hq_errors, ea_vars>>

NextSetup == SetupScript

SpecSetup == InitSetup /\ [][NextSetup]_vars

----------------------------------------------------------------------------
(* Specification SpecCombine: the table setup_script.py compiles from the
   two queries of a hub, each with one row per email *)

CombineCalls ==
    [ntl_contacts : {t \in SeqsUpTo({SetupNtlRow(e, <<"n">>, 0) : e \in Emails}, MaxIncoming) : Distinct(t)},
     mobilize_table : MobilizeTables]

InitCombine ==
    /\ now = Today
    /\ call \in CombineCalls
    /\ ret = "pending"
    /\ pc = "combine"
    /\ hq_worksheet = <<HeaderRow, HeaderRow, HeaderRow>>
    /\ hq_errors = <<>>
    /\ run = NoRun
    /\ control_table = <<>>
    /\ everyaction = {}
    /\ upsert_errors = {}
    /\ setup_spreadsheet = NoSetUp

CallCombine ==
    /\ pc = "combine"
    /\ run' = [script |-> "combine", merged |-> FALSE, hub_hq_append |-> hub_hq_append(call.ntl_contacts, call.mobilize_table)]
    /\ pc' = "combined"
    /\ UNCHANGED <<now, call, ret, hq_worksheet, hq_errors, ea_vars, setup_vars>>

NextCombine == CallCombine

SpecCombine == InitCombine /\ [][NextCombine]_vars

----------------------------------------------------------------------------
(* Specification SpecRetry: one run of errored_upserts_retry.py over a CSV
   whose rows may repeat hubs and contacts *)

MaxCsvRows == 3              \* rows of the CSV

\* contacts of two hubs, without a phone or with a phone and a zip that
\* hold more than digits and more digits than are kept
RetryPhone == <<"+", "1", "2", "3", "4", "5", "6", "7", "8", "9", "0", "1", "-", "2">>
RetryZip == <<"1", "2", "3", "4", "5", "-", "6">>
RetryRows ==
    {RetryRow(h, e, <<>>, <<"1", "2">>) : h \in {<<"h", 1>>, <<"h", 2>>}, e \in {<<"a">>, <<"b">>}}
        \cup {RetryRow(h, <<"a">>, RetryPhone, RetryZip) : h \in {<<"h", 1>>, <<"h", 2>>}}

InitRetry ==
    /\ now = Today
    /\ call \in [contacts : SeqsUpTo(RetryRows, MaxCsvRows), raising : SUBSET {<<"a">>, <<"b">>}]
    /\ ret = "pending"
    /\ pc = "start"
    /\ hq_worksheet = <<HeaderRow, HeaderRow, HeaderRow>>
    /\ hq_errors = <<>>
    /\ run = NoRun
    /\ control_table = <<>>
    /\ everyaction = {}
    /\ upsert_errors = {}
    /\ setup_spreadsheet = NoSetUp

RetryScript ==
    /\ pc = "start"
    /\ RetryMain(call.contacts, call.raising)
    /\ pc' = "retry_done"
    /\ UNCHANGED <<now, call, ret, hq_worksheet, hq_errors, control_table, everyaction, setup_vars>>

NextRetry == RetryScript

SpecRetry == InitRetry /\ [][NextRetry]_vars

----------------------------------------------------------------------------
(* Specification SpecHubs: one run of mobilize_sync.py over the hubs of the
   'scheduled' tab, any call for a hub failing; hq_worksheet holds the
   'Hub HQ' worksheet of every hub, by spreadsheet id *)

MobilizeFailures == {"none", "connect_hq", "connect_settings", "get_all_values", "query", "settings_get", "append_to_sheet"}

\* what the calls for one hub meet: the call that raises and what the
\* query returns
MobilizeInputs ==
    [failure : MobilizeFailures,
     mobilize_data : {<<>>, <<MobilizeRow(<<"a">>, <<"m">>, Today, 1, 0)>>, <<MobilizeRow(<<"b">>, <<"m">>, Today, 1, 0)>>}]

InitHubs ==
    /\ now = Today
    /\ call = <<>>
    /\ ret = "pending"
    /\ pc = "start"
    /\ hq_worksheet = [id \in HubNames |-> <<HeaderRow, HeaderRow, HeaderRow, NationalRow(<<"a">>, Today)>>]
    /\ hq_errors \in {<<>>, << <<"mobilize_sync", <<"h", 0>>, "Error updating event history">> >>}
    /\ run = NoRun
    /\ control_table = <<>>
    /\ everyaction = {}
    /\ upsert_errors = {}
    /\ \E hubs \in SetupTabsBefore : setup_spreadsheet = [set_up |-> <<>>, scheduled |-> hubs, errors |-> <<>>]

MobilizeScript ==
    /\ pc = "start"
    /\ \E input \in [1..Len(setup_spreadsheet.scheduled) -> MobilizeInputs] : MobilizeScriptMain(setup_spreadsheet.scheduled, input)
    /\ pc' = "mobilize_done"
    /\ UNCHANGED <<now, call, ret, ea_vars, setup_vars>>

NextHubs == MobilizeScript

SpecHubs == InitHubs /\ [][NextHubs]_vars

----------------------------------------------------------------------------
(* Claims about assign_status (checked under SpecStatus) *)

Called == ret # "pending"
CallAge == now - call.hq_row.date_joined[1]
CallHit == Has(call.mobilize_dict, call.hq_row.email)
CallSignups == IF CallHit THEN call.mobilize_dict[1].val.total_signups ELSE 0
CallDays == IF CallHit THEN <<call.mobilize_dict[1].val.days_since_last_signup>> ELSE <<>>
CallCond(k) == BranchCond(k, CallAge, CallSignups, CallDays,
                          call.event_threshold, call.inactivity_threshold)
Holding == {k \in 1..5 : CallCond(k)}
Orders == {[i \in 1..5 |-> p[i]] : p \in Permutations(1..5)}
StatusInOrder(order) == FirstMatch(order, CallAge, CallSignups, CallDays,
                                   call.event_threshold, call.inactivity_threshold)

\* C1: assign_status never returns the error status and never raises: for
\* every HQ record of non-negative age, every total_signups,
\* days_since_last_signup and thresholds >= 0, and every record absent from
\* the Mobilize index (0 signups, no days value), the result is one of the
\* five membership statuses.
C1_NeverErrorStatus ==
    Called => /\ ret \in Statuses
              /\ ret # ERROR_STATE
              /\ ret # TypeError

\* a record absent from a non-empty index, older than 60 days, was classified
C1_Witness ==
    /\ Called
    /\ ~CallHit /\ call.mobilize_dict # <<>>
    /\ CallAge > sixtydays
    /\ ret = NEVER

\* the threshold table of the status derivation, written out from the text
ThresholdTable(age, signups, days, event_thr, inactivity_thr) ==
    IF age <= 7 THEN HOT_LEAD
    ELSE IF age <= 60 THEN PROSPECTIVE
    ELSE IF signups <= event_thr THEN NEVER
    ELSE IF days[1] < inactivity_thr THEN ACTIVE
    ELSE INACTIVE

C3_Original ==
    Called => /\ Cardinality(Holding) = 1
              /\ \A order \in Orders : StatusInOrder(order) = ret

\* C3 (amended): for every input at least one branch condition holds and the
\* status is that of the first holding condition in source order; the
\* conditions are mutually exclusive, and the status independent of the
\* test order, exactly for records older than 60 days; up to 60 days the
\* attendance conditions (Active, Inactive) may hold together with an age
\* condition, and the age condition decides.
C3_FirstMatchExhaustive ==
    Called => /\ Holding # {}
              /\ \A k \in Holding : (\A j \in Holding : k <= j) => ret = BranchStatus(k)
              /\ Cardinality(Holding \cap {1, 2, 5}) <= 1
              /\ Cardinality(Holding \cap {3, 4}) <= 1
              /\ CallAge > sixtydays =>
                    /\ Cardinality(Holding) = 1
                    /\ \A order \in Orders : StatusInOrder(order) = ret
              /\ CallAge <= sixtydays => ret \in {HOT_LEAD, PROSPECTIVE}

\* a week-old record whose attendance also satisfies the Active condition
C3_Witness ==
    /\ Called
    /\ CallAge = sevendays
    /\ Holding = {1, 3}
    /\ ret = HOT_LEAD

----------------------------------------------------------------------------
(* Claims about the merge passes (checked under Spec) *)

Merged == run.script # "none" /\ run.merged
MobilizeMerged == Merged /\ run.script = "mobilize_sync"
SheetsMerged == Merged /\ run.script = "sheets_sync"

\* the destination records: the rows the pass read from sheet row 4 on
DestRows == SubSeq(run.hq, 5 - run.first_row, Len(run.hq))
DestEmails == {DestRows[k].email : k \in 1..Len(DestRows)}
\* the sheet row the k-th destination record was read from, after the pass
After(k) == hq_worksheet[3 + k]
\* the rows below the destination records after the pass
Below == SubSeq(hq_worksheet, 4 + Len(DestRows), Len(hq_worksheet))
\* the k-th destination record is the first one carrying its email
First(k) == \A j \in 1..(k - 1) : DestRows[j].email # DestRows[k].email
\* the k-th destination record consumes an incoming record
Hit(k) == Has(run.index, DestRows[k].email) /\ First(k)
Incoming(k) == Get(run.index, DestRows[k].email)

AttendanceCols == {"total_signups", "total_attendances", "first_signup", "first_attendance", "days_since_last_signup", "days_since_last_attendance"}
IdentityCols == {"first_name", "last_name", "email", "phone"}
AllCols == DOMAIN HeaderRow
Age(row) == now - row.date_joined[1]
MissStatus(row) == ThresholdTable(Age(row), 0, <<>>, SettingsF4, SettingsE4)
HitStatus(row, inc) == ThresholdTable(Age(row), inc.total_signups, <<inc.days_since_last_signup>>, SettingsF4, SettingsE4)

C5_FullMatchMerge ==
    (Merged /\ \A e \in Keys(run.index) : Cardinality({k \in 1..Len(DestRows) : DestRows[k].email = e}) = 1) =>
        /\ Len(run.append) = 0
        /\ Len(run.updates) = Len(DestRows)
        /\ Len(hq_worksheet) = 3 + Len(DestRows)

\* two incoming records, both matched, and an HQ that holds as many contacts
C5_WitnessMobilize ==
    /\ MobilizeMerged
    /\ Len(run.index) = 2 /\ Len(DestRows) = 2
    /\ Keys(run.index) = DestEmails

C5_Witness ==
    /\ SheetsMerged
    /\ Len(run.index) = 2 /\ Len(DestRows) = 2
    /\ Keys(run.index) = DestEmails
    /\ Len(run.append) = 0

\* C6: consumed-or-appended partition. After a merge pass every email of the
\* incoming index is either consumed by an HQ row whose email is the same
\* string, case included (and is gone from the index), or emitted once in
\* the records to append, never both and never neither.
C6_ConsumedOrAppended ==
    Merged =>
        /\ \A e \in Keys(run.index) :
              LET consumed == e \in DestEmails
                  appended == {i \in 1..Len(run.append) : run.append[i].email = e}
              IN  /\ consumed <=> appended = {}
                  /\ Cardinality(appended) <= 1
                  /\ consumed <=> ~Has(run.unmatched, e)
        /\ \A i \in 1..Len(run.append) : run.append[i].email \in Keys(run.index)
        /\ Below = run.append

\* an incoming email that differs from an HQ email by case only is appended,
\* while another incoming email is consumed
C6_Witness ==
    /\ Merged
    /\ \E k \in 1..Len(DestRows) : DestRows[k].email = <<"A">>
    /\ <<"A">> \notin Keys(run.index)
    /\ \E i \in 1..Len(run.append) : run.append[i].email = <<"a">>
    /\ \E e \in Keys(run.index) : e \in DestEmails

\* the update row the pass owes the k-th destination record
OwnUpdate(k) ==
    IF run.script = "mobilize_sync"
    THEN IF Hit(k)
         THEN <<HitStatus(DestRows[k], Incoming(k)), DestRows[k].date_joined,
                <<Incoming(k).total_signups>>, <<Incoming(k).total_attendances>>,
                <<Incoming(k).first_signup>>, <<Incoming(k).first_attendance>>,
                <<Incoming(k).days_since_last_signup>>, <<Incoming(k).days_since_last_attendance>> >>
         ELSE <<MissStatus(DestRows[k]), DestRows[k].date_joined,
                DestRows[k].total_signups, DestRows[k].total_attendances,
                DestRows[k].first_signup, DestRows[k].first_attendance,
                DestRows[k].days_since_last_signup, DestRows[k].days_since_last_attendance>>
    ELSE IF Hit(k) THEN <<Incoming(k)[8]>> ELSE << <<>> >>

\* the cells of a sheet row that the pass writes, left to right
WrittenCells(row) ==
    IF run.script = "mobilize_sync"
    THEN <<row.status, row.date_joined, row.total_signups, row.total_attendances, row.first_signup, row.first_attendance, row.days_since_last_signup, row.days_since_last_attendance>>
    ELSE IF run.sheet = "form responses" THEN <<row.interest_form_responses>> ELSE <<row.data_entry_data>>

\* C7: positional alignment of the write-back. The update set holds one row
\* per destination data row, in destination order, and the k-th update row
\* is the one computed for the k-th destination record and is written to
\* the sheet row that record was read from.
C7_PositionalAlignment ==
    Merged =>
        /\ Len(run.updates) = Len(DestRows)
        /\ \A k \in 1..Len(DestRows) :
              /\ run.updates[k] = OwnUpdate(k)
              /\ WrittenCells(After(k)) = run.updates[k]
              /\ After(k).email = DestRows[k].email

\* the second of two contacts has a match and the first has none
C7_Witness ==
    /\ SheetsMerged
    /\ Len(DestRows) = 2
    /\ ~Hit(1) /\ Hit(2)
    /\ After(2).interest_form_responses = Incoming(2)[8]
    /\ After(1).interest_form_responses = <<>>

C7_WitnessMobilize ==
    /\ MobilizeMerged
    /\ Len(DestRows) = 2
    /\ ~Hit(1) /\ Hit(2)
    /\ After(2).total_signups = <<Incoming(2).total_signups>>
    /\ After(1).total_signups # After(2).total_signups

\* C8 as stated: a Hub HQ row whose email has no entry in the incoming index
\* holds the same interest_form_responses (form responses pass) or
\* data_entry_data (data entry pass) after the write as before it.
C8_MissLeavesResponses ==
    SheetsMerged =>
        \A k \in 1..Len(DestRows) :
            ~Has(run.index, DestRows[k].email) => WrittenCells(After(k)) = WrittenCells(DestRows[k])

\* a pass that had incoming rows to index
Queried == run.script \in {"mobilize_sync", "sheets_sync"} /\ Len(run.source) > 0

\* the destination rows that carry the email e
RowsWith(e) == {k \in 1..Len(DestRows) : DestRows[k].email = e}

\* C10 as stated: when several destination rows share an email that has an
\* incoming record, the pass completes, one of the rows takes the incoming
\* values, the others keep the fields they had (in mobilize_sync with the
\* status of a contact without incoming data), and the incoming record is
\* not appended.
C10_DuplicateDestination ==
    (Queried /\ \E e \in Keys(run.index) : Cardinality(RowsWith(e)) >= 2) =>
        /\ run.merged /\ hq_errors = <<>>
        /\ \A e \in Keys(run.index) :
              Cardinality(RowsWith(e)) >= 2 =>
                  /\ \A i \in 1..Len(run.append) : run.append[i].email # e
                  /\ \E k \in RowsWith(e) :
                        /\ Hit(k) /\ WrittenCells(After(k)) = OwnUpdate(k)
                        /\ \A j \in RowsWith(e) \ {k} :
                              /\ Tail(WrittenCells(After(j))) = Tail(WrittenCells(DestRows[j]))
                              /\ run.script = "sheets_sync" => WrittenCells(After(j)) = WrittenCells(DestRows[j])
                              /\ run.script = "mobilize_sync" => After(j).status = MissStatus(DestRows[j])

----------------------------------------------------------------------------
(* Claims about the index builders (checked under SpecIndex) *)

Indexed == pc = "indexed"
\* the positions of the rows that carry the email e, in source order
Carrying(e) == {i \in 1..Len(call.rows) : (IF call.fn = "get_mobilize_data" THEN call.rows[i].email ELSE call.rows[i][4]) = e}
FirstCarrying(e) == call.rows[CHOOSE i \in Carrying(e) : \A j \in Carrying(e) : i <= j]
LastCarrying(e) == call.rows[CHOOSE i \in Carrying(e) : \A j \in Carrying(e) : j <= i]
Repeated == {e \in IndexEmails : Cardinality(Carrying(e)) >= 2}
BaseFields(row) == SubSeq(row, 1, 7)

\* the values of column j of the rows i.. that carry e, as the first loop
\* joins them: the first row's value, then ', ' and each later non-empty value
RECURSIVE JoinedFrom(_, _, _, _)
JoinedFrom(e, j, i, acc) ==
    IF i > Len(call.rows) THEN acc
    ELSE JoinedFrom(e, j, i + 1,
            IF i \in Carrying(e) /\ call.rows[i][j] # <<>> THEN acc \o <<",", " ">> \o call.rows[i][j] ELSE acc)
Joined(e, j) == JoinedFrom(e, j, (CHOOSE i \in Carrying(e) : \A k \in Carrying(e) : i <= k) + 1, FirstCarrying(e)[j])
Labelled(j, text) == IF text = <<>> THEN <<>> ELSE FormHeaderRow[j] \o <<":", " ">> \o text \o <<"\n">>

\* C9 as stated: when several incoming rows carry the same email, the index
\* entry of that email holds the field values of the last such row, in the
\* dict of get_mobilize_data and in the sheet_dict of
\* construct_update_dictionary.
C9_Original ==
    Indexed =>
        \A e \in Repeated :
            IF call.fn = "get_mobilize_data"
            THEN Get(run.index, e) = LastCarrying(e)
            ELSE BaseFields(Get(run.index, e)) = BaseFields(LastCarrying(e))

\* C9, amended: the dict of get_mobilize_data is last-write-wins; the
\* sheet_dict of construct_update_dictionary keeps the leading seven fields
\* of the FIRST row of an email, and the later rows of that email add only
\* their non-empty values right of birthyear, joined with ', ' in source
\* order before the columns are compiled into one cell.
C9_IndexOnRepeatedEmail ==
    Indexed =>
        \A e \in IndexEmails :
            /\ Has(run.index, e) <=> Carrying(e) # {}
            /\ Carrying(e) # {} =>
                  IF call.fn = "get_mobilize_data"
                  THEN Get(run.index, e) = LastCarrying(e)
                  ELSE /\ BaseFields(Get(run.index, e)) = BaseFields(FirstCarrying(e))
                       /\ Len(Get(run.index, e)) = 8
                       /\ Get(run.index, e)[8] = Labelled(8, Joined(e, 8)) \o Labelled(9, Joined(e, 9))

\* two form rows of one email that differ in the first name and both carry
\* a value right of birthyear
C9_Witness ==
    /\ Indexed /\ call.fn = "construct_update_dictionary"
    /\ Len(call.rows) = 2 /\ call.rows[1][4] = <<"a">> /\ call.rows[2][4] = <<"a">>
    /\ call.rows[1][2] # call.rows[2][2]
    /\ call.rows[1][8] # <<>> /\ call.rows[2][8] # <<>>
    /\ Get(run.index, <<"a">>)[2] = call.rows[1][2]

\* two query rows of one email that differ in their values
C9_WitnessQuery ==
    /\ Indexed /\ call.fn = "get_mobilize_data"
    /\ Len(call.rows) = 2 /\ call.rows[1].email = call.rows[2].email
    /\ call.rows[1] # call.rows[2]
    /\ Get(run.index, call.rows[1].email) = call.rows[2]

----------------------------------------------------------------------------
(* Claims about the concatenation (checked under SpecIndex) *)

\* how often the text sub occurs in text
CountOf(text, sub) == Cardinality({k \in 1..(Len(text) - Len(sub) + 1) : SubSeq(text, k, k + Len(sub) - 1) = sub})
Contains(text, sub) == CountOf(text, sub) > 0
TrailingValues == {call.rows[i][j] : i \in 1..Len(call.rows), j \in 8..9} \ {<<>>}

\* C11: no data loss in the concatenation of sheets_sync. For every email,
\* every non-empty value right of the birthyear column of every incoming row
\* with that email appears in the email's concatenated field, as often as
\* rows carry it, unless the placeholder stands there.
C11_NoDataLoss ==
    (Indexed /\ call.fn = "construct_update_dictionary") =>
        \A e \in IndexEmails :
            (Carrying(e) # {} /\ Get(run.index, e)[8] # TooMuchData) =>
                \A x \in TrailingValues :
                    CountOf(Get(run.index, e)[8], x) >= Cardinality({<<i, j>> \in Carrying(e) \X (8..9) : call.rows[i][j] = x})

\* three form rows of one email, each with a value in both columns right of
\* birthyear: the field holds every value three times
C11_Witness ==
    /\ Indexed /\ call.fn = "construct_update_dictionary"
    /\ Cardinality(Carrying(<<"a">>)) = 3
    /\ \A i \in 1..3 : call.rows[i][8] = <<"v">>
    /\ CountOf(Get(run.index, <<"a">>)[8], <<"v">>) = 3
    /\ CountOf(Get(run.index, <<"a">>)[8], <<"w">>) = 3

----------------------------------------------------------------------------
(* Claims about interest_form_data_entry_sheet_script.py (checked under
   SpecInterestForm) *)

\* C12 as stated: when an email occurs in several rows of the sheet, the
\* non-empty values right of the zipcode column of every one of those rows
\* appear in the email's concatenated cell.
C12_AllRowsBound ==
    (Indexed /\ call.fn = "interest_form_construct_update_dictionary") =>
        \A e \in IndexEmails :
            \A i \in Carrying(e) : \A j \in 7..8 :
                call.rows[i][j] # <<>> => Contains(Get(run.index, e)[7], call.rows[i][j])

----------------------------------------------------------------------------
(* Claims about the compiled field (checked under SpecCompile) *)

Compiled == pc = "compiled"
\* the number of leading columns of the sheet of the script called
Leading == IF call.fn = "construct_update_dictionary" THEN 7 ELSE 6
ContactRow == call.rows[1]
TrailingCols == (Leading + 1)..Len(ContactRow)
PopulatedTrailing == {j \in TrailingCols : ContactRow[j] # <<>>}
\* the concatenated field returned for the contact
Field == Get(run.index, ContactRow[4])[Leading + 1]
PlaceholderShown == Field = TooMuchData
Segment(j) == <<Upper[j]>> \o <<":", " ">> \o ContactRow[j] \o <<"\n">>
\* where the text sub first starts in text
IndexOf(text, sub) == CHOOSE k \in 1..Len(text) : SubSeq(text, k, k + Len(sub) - 1) = sub /\ \A m \in 1..(k - 1) : SubSeq(text, m, m + Len(sub) - 1) # sub

\* C13: the concatenation keeps the column order. For trailing columns
\* a, b, c in that column order, all non-empty for the contact, the field
\* holds a's 'label: value' segment before b's before c's, each ending in a
\* newline (both scripts; the placeholder not shown).
C13_OrderPreserving ==
    (Compiled /\ ~PlaceholderShown) =>
        \A a, b, c \in PopulatedTrailing :
            (a < b /\ b < c) =>
                /\ Contains(Field, Segment(a)) /\ Contains(Field, Segment(b)) /\ Contains(Field, Segment(c))
                /\ IndexOf(Field, Segment(a)) < IndexOf(Field, Segment(b))
                /\ IndexOf(Field, Segment(b)) < IndexOf(Field, Segment(c))

\* three populated trailing columns, the first of them not the first
\* trailing column of the sheet, compiled by sheets_sync
C13_Witness ==
    /\ Compiled /\ call.fn = "construct_update_dictionary"
    /\ PopulatedTrailing = {9, 11, 12}
    /\ Field = Segment(9) \o Segment(11) \o Segment(12)

C13_WitnessInterestForm ==
    /\ Compiled /\ call.fn = "interest_form_construct_update_dictionary"
    /\ PopulatedTrailing = {7, 9, 12}
    /\ Field = Segment(7) \o Segment(9) \o Segment(12)

\* the contact's row with other leading cells filled
Variant(base) == [j \in 1..Len(ContactRow) |-> IF j \in TrailingCols THEN ContactRow[j] ELSE IF j \in base \cup {4} THEN <<Lower[j]>> ELSE <<>>]
\* the placeholder is what the script returns for that row
VariantShown(base) ==
    IF call.fn = "construct_update_dictionary"
    THEN CompileContact(Variant(base), WideHeaderRow(Len(ContactRow))) = SubSeq(Variant(base), 1, Leading) \o <<TooMuchData>>
    ELSE InterestFormCompileContact(Variant(base), WideHeaderRow(Len(ContactRow))) = SubSeq(Variant(base), 1, Leading) \o <<TooMuchData>>

\* C14 as stated: the placeholder stands in the field exactly when the
\* number of populated trailing sub-fields of the contact exceeds a fixed
\* count, whatever leading fields (date joined, names, phone, zipcode,
\* birthyear) are filled or empty.
C14_PlaceholderByTrailing ==
    Compiled =>
        \E limit \in 0..Len(ContactRow) :
            \A base \in SUBSET (1..Leading) :
                VariantShown(base) <=> (Cardinality(PopulatedTrailing) > limit)

----------------------------------------------------------------------------
(* Claims about everyaction_sync.py (checked under SpecEverySync) *)

\* the contact rows of the Hub HQ and the emails handed to upsert_person_json
HqContacts == get_hq(hq_worksheet)
PassedToUpsert == {u.email : u \in everyaction \cup upsert_errors}
SyncedLast == run.script = "everyaction_sync"

\* C15: every contact row that mobilize_sync, sheets_sync or
\* new_national_contacts_sync has added to the Hub HQ is passed to the upsert
\* by a run of everyaction_sync: when everyaction_sync has just run over the
\* sheet, no contact row of it is left that was never passed to the upsert.
C15_EveryContactUpserted ==
    SyncedLast => \A i \in 1..Len(HqContacts) : HqContacts[i].email \in PassedToUpsert

\* a contact of the Hub HQ that no run has passed to the upsert and whose
\* Date Joined is not later than the last recorded sync
Skipped(e) ==
    /\ Len(control_table) > 0
    /\ e \notin PassedToUpsert
    /\ \E i \in 1..Len(HqContacts) : HqContacts[i].email = e
    /\ \A i \in 1..Len(HqContacts) :
          HqContacts[i].email = e => strptime(HqContacts[i].date_joined) <= last_successful_syncs(control_table)[1]

\* a skipped contact stays skipped whatever runs next
SkippedForGood == [][\A e \in EaEmails : Skipped(e) => Skipped(e)']_vars

\* C16: a date_of_ea_sync_success is recorded only for a run that succeeded
\* for the hub: a run of everyaction_sync in which an upsert raised leaves
\* the hub's rows of the control table as they were.
C16_NoDateAfterFailedUpsert ==
    (SyncedLast /\ run.errors # {}) => control_table = run.control_table

Claimed(row) == row.source = NATIONAL /\ Len(row.date_claimed) > 0

\* C17: a contact of the national list that has been claimed is upserted by
\* a later run of everyaction_sync: when everyaction_sync has just run, every
\* claimed contact of the sheet has been passed to the upsert on or after
\* the day it was claimed.
C17_ClaimedContactUpserted ==
    SyncedLast =>
        \A i \in 1..Len(HqContacts) :
            Claimed(HqContacts[i]) =>
                \E u \in everyaction \cup upsert_errors :
                    u.email = HqContacts[i].email /\ u.date >= strptime(HqContacts[i].date_claimed)

----------------------------------------------------------------------------
(* Claims about new_national_contacts_sync.py (checked under SpecNational) *)

NationalSynced == run.script = "new_national_contacts_sync" /\ run.queried
ReadEmails == {run.hq[j].email : j \in 1..Len(run.hq)}
AppendedEmails == {run.append[i].email : i \in 1..Len(run.append)}

\* C18: new_national_contacts_sync appends no duplicate: the email of every
\* contact of the table it appends differs from the email of every row of
\* the Hub HQ as read; every queried contact whose email is not in the Hub
\* HQ is in that table, once, with source 'National Email List' and status
\* 'HOT LEAD'; and the table is what the append adds below the rows read.
C18_NoDuplicateAppended ==
    NationalSynced =>
        /\ AppendedEmails \cap ReadEmails = {}
        /\ \A k \in 1..Len(run.source) :
              run.source[k].email \notin ReadEmails =>
                  /\ Cardinality({i \in 1..Len(run.append) : run.append[i].email = run.source[k].email}) = 1
                  /\ \A i \in 1..Len(run.append) :
                        run.append[i].email = run.source[k].email =>
                            run.append[i].source = NATIONAL /\ run.append[i].status = HOT_LEAD
        /\ AppendedEmails \subseteq {run.source[k].email : k \in 1..Len(run.source)}
        /\ run.appended => get_hq(hq_worksheet) = run.hq \o run.append

\* a run that held back a queried contact already in the Hub HQ and appended another
C18_Witness ==
    /\ NationalSynced
    /\ run.appended
    /\ Len(run.append) > 0
    /\ Len(run.append) < Len(run.source)
    /\ get_hq(hq_worksheet) = run.hq \o run.append

----------------------------------------------------------------------------
(* Claims about setup_script.py (checked under SpecSetup and SpecCombine) *)

SetupRan == run.script = "setup_script"
InTab(tab, name) == \E i \in 1..Len(tab) : tab[i].hub_name = name
HubName(k) == run.hubs[k].hub_name

\* the loop has reached the k-th hub: no hub before it made the script raise
Reached(k) == \A h \in 1..(k - 1) : run.input[h].failure \in {"none", "append_to_sheet"}

\* every call for the k-th hub went through and contacts were appended
SetUp(k) ==
    /\ Reached(k)
    /\ run.input[k].failure = "none"
    /\ Len(run.input[k].ntl_contacts) + Len(run.input[k].mobilize_table) > 0

\* one of the calls for the k-th hub failed
NotSetUp(k) == Reached(k) /\ run.input[k].failure # "none"

NewErrors == SubSeq(setup_spreadsheet.errors, Len(run.before.errors) + 1, Len(setup_spreadsheet.errors))

\* C19: after a run of setup_script, a hub whose set-up succeeded is on the
\* 'scheduled' tab and no longer on the 'set up' tab; a hub for which the
\* zipcode search, one of the two queries or the append failed is still on
\* the 'set up' tab, not on the 'scheduled' tab, and the 'errors' tab has a
\* new row for it.
C19_SetupOutcome ==
    SetupRan =>
        \A k \in 1..Len(run.hubs) :
            /\ SetUp(k) =>
                  InTab(setup_spreadsheet.scheduled, HubName(k)) /\ ~InTab(setup_spreadsheet.set_up, HubName(k))
            /\ NotSetUp(k) =>
                  /\ InTab(setup_spreadsheet.set_up, HubName(k))
                  /\ ~InTab(setup_spreadsheet.scheduled, HubName(k))
                  /\ \E i \in 1..Len(NewErrors) : NewErrors[i][1] = HubName(k)

Combined == run.script = "combine"
CombinedEmails(source) == {run.hub_hq_append[i].email : i \in {j \in 1..Len(run.hub_hq_append) : run.hub_hq_append[j].source = source}}

\* C20: the table compiled from a national and a Mobilize table that each
\* have one row per email has no two rows with the same email; it holds
\* every Mobilize contact, and a national contact exactly when its email is
\* not a Mobilize email; it holds nothing else.
C20_NoOverlap ==
    Combined =>
        /\ \A i, j \in 1..Len(run.hub_hq_append) :
              i # j => run.hub_hq_append[i].email # run.hub_hq_append[j].email
        /\ CombinedEmails("Mobilize") = mobilize_emails(call.mobilize_table)
        /\ \A n \in 1..Len(call.ntl_contacts) :
              call.ntl_contacts[n].email \in CombinedEmails(NATIONAL)
                  <=> call.ntl_contacts[n].email \notin mobilize_emails(call.mobilize_table)
        /\ CombinedEmails(NATIONAL) \subseteq {call.ntl_contacts[n].email : n \in 1..Len(call.ntl_contacts)}
        /\ \A i \in 1..Len(run.hub_hq_append) : run.hub_hq_append[i].source \in {NATIONAL, "Mobilize"}

\* a national contact left out for a Mobilize contact of the same email,
\* another national contact kept
C20_Witness ==
    /\ Combined
    /\ \E n \in 1..Len(call.ntl_contacts) : call.ntl_contacts[n].email \in mobilize_emails(call.mobilize_table)
    /\ CombinedEmails(NATIONAL) # {}
    /\ Len(run.hub_hq_append) = Len(call.ntl_contacts) + Len(call.mobilize_table) - 1

----------------------------------------------------------------------------
(* Claims about errored_upserts_retry.py (checked under SpecRetry) *)

Retried == run.script = "errored_upserts_retry"
Times(list, x) == Cardinality({i \in 1..Len(list) : list[i] = x})

\* the upsert a row of the CSV calls for: the key of the row's hub, the
\* phone and the zip reduced to their digits
ExpectedUpsert(row) ==
    [api_key |-> api_keys(row.hub),
     json_dict |-> [firstName |-> row.first, lastName |-> row.last, email |-> row.email,
                    zipOrPostalCode |-> convert_zip(row.zip),
                    phoneNumber |-> IF Digits(row.phone) = <<>> THEN None ELSE Some(convert_phone(row.phone))]]

\* the error row of a row of the CSV whose upsert raised
ExpectedError(row) == <<row.hub, row.first, row.last, row.email, convert_phone(row.phone), convert_zip(row.zip)>>

Refused == {k \in 1..Len(run.contacts) : run.contacts[k].email \in run.raising}

----------------------------------------------------------------------------
(* Claims about main of mobilize_sync.py (checked under SpecHubs) *)

HubsRan == run.script = "mobilize_sync_hubs"
NewHqErrors == SubSeq(hq_errors, Len(run.before) + 1, Len(hq_errors))

\* C22: a failure while one hub is processed (connecting to its sheets,
\* querying its Mobilize data, updating the event history, appending the new
\* contacts) leaves a row naming the hub in the errors table and does not
\* keep the other hubs from being processed; hq_errors is copied to the
\* errors table exactly when it holds an error row.
C22_FailureIsolation ==
    HubsRan =>
        /\ \A k \in 1..Len(run.hubs) : \E v \in 1..Len(run.visited) : run.visited[v] = run.hubs[k].hub_name
        /\ \A f \in 1..Len(run.failed) : \E i \in 1..Len(NewHqErrors) : NewHqErrors[i][2] = run.failed[f]
        /\ run.copied <=> Len(run.hq_errors) > 0
        /\ NewHqErrors = run.hq_errors

\* the same for the runs in which no call outside the try blocks raises
C22_CaughtFailures == (HubsRan /\ ~run.raised) => C22_FailureIsolation

\* a run in which the appending of new contacts fails for the first hub and
\* the connection to the Hub HQ for the second, both logged and copied
C22_CaughtWitness ==
    /\ HubsRan /\ ~run.raised /\ Len(run.hubs) = 2
    /\ run.input[1].failure = "append_to_sheet" /\ run.input[2].failure = "connect_hq"
    /\ run.failed = <<run.hubs[1].hub_name, run.hubs[2].hub_name>>
    /\ Len(NewHqErrors) = 2 /\ run.copied

----------------------------------------------------------------------------
(* Claims about the write-back of mobilize_updates (checked under Spec) *)

\* the row of hq at 0-based idx is a hit: its email is a key of the dict
\* and no row above it has taken the record
IsHit(idx) ==
    /\ Has(run.index, run.hq[idx + 1].email)
    /\ \A j \in 1..idx : run.hq[j].email # run.hq[idx + 1].email

IncomingColumns == {update_items[i] : i \in 1..Len(update_items)}
KeptColumns == {"first_name", "last_name", "email", "phone", "date_joined"}
OtherColumns == {"interest_form_responses", "data_entry_data", "zipcode", "birthyear", "source"}

----------------------------------------------------------------------------
(* Claims about mark_as_claimed (checked under SpecEverySync) *)

\* the date_claimed of sheet row r before the step; a row that the step
\* appends had none
ClaimedBefore(r) == IF r <= Len(hq_worksheet) THEN hq_worksheet[r].date_claimed ELSE <<>>

\* the step is a merge pass of mobilize_sync or sheets_sync in which the
\* contact of sheet row r had a match in the incoming data
MatchedBy(r) ==
    /\ r <= Len(hq_worksheet)
    /\ run'.script \in {"mobilize_sync", "sheets_sync"}
    /\ run'.merged
    /\ r >= run'.first_row
    /\ Has(run'.index, hq_worksheet[r].email)

\* no row above r was read with the same email and took the record
FirstOfEmail(r) == \A j \in 1..(r - 1) : j >= run'.first_row => hq_worksheet[j].email # hq_worksheet[r].email

ClaimStep(r) ==
    /\ ClaimedBefore(r) # <<>> => hq_worksheet'[r].date_claimed = ClaimedBefore(r)
    /\ (ClaimedBefore(r) = <<>> /\ hq_worksheet'[r].date_claimed # <<>>) =>
            /\ MatchedBy(r)
            /\ hq_worksheet[r].source = NATIONAL
            /\ hq_worksheet'[r].email = hq_worksheet[r].email
            /\ hq_worksheet'[r].date_claimed = strftime(now)
    /\ (MatchedBy(r) /\ FirstOfEmail(r) /\ hq_worksheet[r].source = NATIONAL /\ ClaimedBefore(r) = <<>>) =>
            hq_worksheet'[r].date_claimed = strftime(now)

\* C24: a run writes a date_claimed only in column R of the sheet row of a
\* contact that had a match, whose source is 'National Email List' and whose
\* date_claimed was empty (the first such row of an email always gets it);
\* over any sequence of runs a date_claimed once written is never changed.
C24_ClaimedOnce == [][\A r \in 1..Len(hq_worksheet') : ClaimStep(r)]_vars

\* a national contact claimed by an earlier run has been matched again by a
\* later merge pass and still carries the earlier date
C24_Witness ==
    /\ run.script \in {"mobilize_sync", "sheets_sync"}
    /\ run.merged
    /\ \E r \in 1..Len(hq_worksheet) :
          /\ r >= run.first_row
          /\ hq_worksheet[r].source = NATIONAL
          /\ hq_worksheet[r].date_claimed # <<>>
          /\ hq_worksheet[r].date_claimed[1] + 2 < now
          /\ Has(run.index, hq_worksheet[r].email)

====
